---- MODULE Spec2Model ----
(***************************************************************************)
(* Model of the request-admission core of the authentication service:     *)
(*   - AdvancedRateLimiter  (src/middleware/advancetRateLimit.js)          *)
(*   - SecurityMonitor      (middleware/securityMonitoring.js)             *)
(*   - SecurityAuditLogger  (middleware/securityAudit.js)                  *)
(* Time is in milliseconds (Date.now()).  Strings that the code searches   *)
(* or concatenates (paths, bodies, user agents, addresses) are sequences   *)
(* of string pieces; concatenation is \o and the string operations are     *)
(* computed on the pieces.                                                 *)
(***************************************************************************)
EXTENDS Integers, Sequences, FiniteSets, TLC

VARIABLES
  now,          \* Date.now()
  config,       \* AdvancedRateLimiter.config
  limiters,     \* AdvancedRateLimiter.limiters: per scope, the limiter's options
  initialized,  \* AdvancedRateLimiter.initialized
  buckets,      \* per scope, the storage of that scope's limiter: key -> record
  cur,          \* the request whose checkLimits waits at an await, else Idle
  last,         \* the request answered most recently, with its response
  nreq,         \* number of requests received so far
  granted,      \* per scope and key: consumptions allowed since the bucket was last created
  tripped,      \* per scope: the keys whose bucket has been blocked at some time
  redisClient,  \* AdvancedRateLimiter.redisClient
  generation,   \* how many limiter sets have been assigned to this.limiters
  admin,        \* the latest call of the constructor, init, reset or updateConfig, and
                \* what it returned
  env,          \* process.env: NODE_ENV and the rate limit variables of the active environment
  blockedIPs,   \* SecurityMonitor.blockedIPs
  timers,       \* pending unblock timers of blockSuspiciousIP: <<ip, due time>> -> how many
  anomalies,    \* SecurityMonitor.anomalies: clientId -> sequence of timestamps
  arrivals,     \* per clientId: timestamps of every request that reached detectAnomalies
  events,       \* SecurityAuditLogger.events
  stats,        \* SecurityAuditLogger.stats
  alerts,       \* number of alerts raised by triggerAlert, per alert type
  keys,         \* JWTManager.keys: key name -> secret
  currentKeyId, \* JWTManager.currentKeyId
  blacklistedTokens,  \* JWTManager.blacklistedTokens
  loading,      \* where the loadKeys() started by the constructor stands, and its primaryKey
  nkeys,        \* number of key ids generated so far
  retired,      \* the key (id and secret) that was current just before the latest rotateKeys
  issued,       \* the tokens signToken has returned
  verdict,      \* the outcome of the latest signToken or verifyToken call
  report,       \* what the latest generateSecurityReport returned: its two rankings
  tokenStore,   \* RefreshTokenManager.tokenStore: token -> [userId, expires, used]
  refreshed     \* the latest generateRefreshToken or validateRefreshToken call and its outcome

vars == <<now, config, limiters, initialized, buckets, cur, last, nreq, granted, tripped,
          redisClient, generation, admin, env,
          blockedIPs, timers, anomalies, arrivals, events, stats, alerts,
          keys, currentKeyId, blacklistedTokens, loading, nkeys, retired, issued, verdict,
          report, tokenStore, refreshed>>

adminVars == <<redisClient, generation, admin, env>>
limiterVars == <<config, limiters, initialized, buckets, granted, tripped, adminVars>>
monitorVars == <<blockedIPs, timers, anomalies, arrivals>>
journalVars == <<events, stats, alerts>>
jwtVars == <<keys, currentKeyId, blacklistedTokens, loading, nkeys, retired, issued,
            verdict>>
restVars == <<report, tokenStore, refreshed>>

----------------------------------------------------------------------------
(* Bounds of the model *)

MaxReq == 4          \* requests handed to checkLimits in one behaviour of the limiter alone
MaxChainReq == 3     \* requests received by the middleware chain in one behaviour
MaxFloodReq == 53    \* requests received in one behaviour of the flood scenario
MaxOther == 1        \* requests of the second fingerprint in the flood scenario
MaxTime == 2000      \* no request is received after this time
MaxLogins == 5       \* login attempts logged in one behaviour of the journal alone
MaxBlocks == 4       \* address blocks logged in one behaviour of the journal alone
MaxSuspicious == 11  \* suspicious activities logged in one behaviour of the journal alone
MaxAttacks == 7      \* attacks logged in one behaviour of the journal alone
MaxViolations == 2   \* rate limit violations logged in one behaviour of the journal alone
MaxOtherType == 1    \* events of another type than the first one's, in the journal alone
BacklogLen == 999    \* events in the journal at the start of the full-journal scenario
MaxExtra == 3        \* events logged after the backlog in the full-journal scenario
MaxTokens == 1       \* tokens signed in one behaviour of the key manager
MaxRevoked == 1      \* token ids revoked in one behaviour of the key manager
MaxRotations == 2    \* key rotations in one behaviour of the key manager
MaxSets == 2         \* limiter sets assigned in one behaviour of the administered limiter
MaxAdminReq == 3     \* requests received in one behaviour of the administered limiter
MaxEnvSet == 2          \* rate limit variables that are set in the environment at construction
MaxRefreshTokens == 2   \* refresh tokens generated in one behaviour of the refresh token manager
MaxCount == 2           \* attacks logged per address in the journals that are reported on

----------------------------------------------------------------------------
(* Strings as sequences of pieces *)

StartsWith(s, p) == Len(p) <= Len(s) /\ SubSeq(s, 1, Len(p)) = p

Includes(s, p) == \E i \in 1..(Len(s) - Len(p) + 1) : SubSeq(s, i, i + Len(p) - 1) = p

Max(a, b) == IF a >= b THEN a ELSE b

\* Math.round on a non-negative quotient ms / 1000
RoundSeconds(ms) == (ms + 500) \div 1000

----------------------------------------------------------------------------
(* Configuration *)

Scopes == <<"ip", "user", "login">>
ScopeSet == {"ip", "user", "login"}

\* the environment-derived limits (seconds), here small so that windows and blocks elapse
EnvLimits ==
  [ip    |-> [points |-> 2, duration |-> 2, blockDuration |-> 1],
   user  |-> [points |-> 1, duration |-> 1, blockDuration |-> 2],
   login |-> [points |-> 1, duration |-> 2, blockDuration |-> 1]]

exemptPaths == { <<"/", "health">>, <<"/", "metrics">>, <<"/", "api-docs">>, <<"/", "favicon.ico">> }

getActiveConfig ==
  [ip |-> EnvLimits.ip, user |-> EnvLimits.user, login |-> EnvLimits.login,
   environment |-> "production", exemptPaths |-> exemptPaths]

\* setupLimiters with the login limiter built from the ip limits
setupLimitersLoginFromIp(cfg) ==
  [ip    |-> [points |-> cfg.ip.points, duration |-> cfg.ip.duration,
              blockDuration |-> cfg.ip.blockDuration, store |-> "memory"],
   user  |-> [points |-> cfg.user.points, duration |-> cfg.user.duration,
              blockDuration |-> cfg.user.blockDuration, store |-> "memory"],
   login |-> [points |-> cfg.ip.points, duration |-> cfg.ip.duration,
              blockDuration |-> cfg.ip.blockDuration, store |-> "memory"]]

\* setupLimiters with the user limiter given the ip points
setupLimitersUserPoints(cfg) ==
  [ip    |-> [points |-> cfg.ip.points, duration |-> cfg.ip.duration,
              blockDuration |-> cfg.ip.blockDuration, store |-> "memory"],
   user  |-> [points |-> cfg.ip.points, duration |-> cfg.user.duration,
              blockDuration |-> cfg.user.blockDuration, store |-> "memory"],
   login |-> [points |-> cfg.login.points, duration |-> cfg.login.duration,
              blockDuration |-> cfg.login.blockDuration, store |-> "memory"]]

\* the options each limiter is constructed with
setupLimiters(cfg) ==
  [ip    |-> [points |-> cfg.ip.points, duration |-> cfg.ip.duration,
              blockDuration |-> cfg.ip.blockDuration, store |-> "memory"],
   user  |-> [points |-> cfg.user.points, duration |-> cfg.user.duration,
              blockDuration |-> cfg.user.blockDuration, store |-> "memory"],
   login |-> [points |-> cfg.login.points, duration |-> cfg.login.duration,
              blockDuration |-> cfg.login.blockDuration, store |-> "memory"]]

----------------------------------------------------------------------------
(* The configuration read from the environment *)

Fields == {"points", "duration", "blockDuration"}

\* the value of a variable of the environment is a sequence of characters; a variable that
\* is not set has none
Unset == <<>>

DigitValue(c) ==
  CASE c = "0" -> 0 [] c = "1" -> 1 [] c = "2" -> 2 [] c = "3" -> 3 [] c = "4" -> 4
    [] c = "5" -> 5 [] c = "6" -> 6 [] c = "7" -> 7 [] c = "8" -> 8 [] OTHER -> 9

IsDigit(c) == c \in {"0", "1", "2", "3", "4", "5", "6", "7", "8", "9"}

\* the number written by the digits at the head of s, continuing acc
RECURSIVE LeadingDigits(_, _)
LeadingDigits(s, acc) ==
  IF s = <<>> \/ ~IsDigit(Head(s)) THEN acc
  ELSE LeadingDigits(Tail(s), acc * 10 + DigitValue(Head(s)))

\* parseInt(value, 10): an optional sign and the digits that follow it, NaN without a digit
parseInt(s) ==
  LET signed == s # <<>> /\ Head(s) \in {"-", "+"}
      body == IF signed THEN Tail(s) ELSE s
      magnitude == LeadingDigits(body, 0)
  IN IF body = <<>> \/ ~IsDigit(Head(body))
     THEN [isNaN |-> TRUE, value |-> 0]
     ELSE [isNaN |-> FALSE,
           value |-> IF signed /\ Head(s) = "-" THEN 0 - magnitude ELSE magnitude]

parseEnvNumber(value, defaultValue) ==
  LET parsed == parseInt(value)
  IN IF parsed.isNaN THEN defaultValue ELSE parsed.value

\* the defaults of rateLimitConfig.development and rateLimitConfig.production
Defaults ==
  [development |->
     [ip    |-> [points |-> 1000, duration |-> 60, blockDuration |-> 5],
      user  |-> [points |-> 500, duration |-> 60, blockDuration |-> 5],
      login |-> [points |-> 50, duration |-> 3600, blockDuration |-> 10]],
   production |->
     [ip    |-> [points |-> 100, duration |-> 60, blockDuration |-> 300],
      user  |-> [points |-> 200, duration |-> 60, blockDuration |-> 600],
      login |-> [points |-> 5, duration |-> 900, blockDuration |-> 1800]]]

\* getActiveConfig() in the environment e: [isDevelopment, values], values giving the
\* characters of the variable of each scope and field in the active environment
getActiveConfigFrom(e) ==
  LET environment == IF e.isDevelopment THEN "development" ELSE "production"
      limits == [sc \in ScopeSet |->
                   [f \in Fields |->
                      parseEnvNumber(e.values[<<sc, f>>], Defaults[environment][sc][f])]]
  IN [ip |-> limits.ip, user |-> limits.user, login |-> limits.login,
      environment |-> environment, exemptPaths |-> exemptPaths]

\* validateRateLimitConfig that lets a zero pass
validateAllowZero(cfg) ==
  LET errors == {x \in ScopeSet \X Fields : cfg[x[1]][x[2]] < 0}
  IN [isValid |-> errors = {}, errors |-> errors, config |-> cfg]

\* validateRateLimitConfig() on the active configuration cfg, whose values are numbers; the
\* errors are kept as the set of the scopes and fields they name
validateRateLimitConfig(cfg) ==
  LET errors == {x \in ScopeSet \X Fields : cfg[x[1]][x[2]] <= 0}
  IN [isValid |-> errors = {}, errors |-> errors, config |-> cfg]

\* an environment that sets every variable to the limit of EnvLimits
EnvOfLimits(isDevelopment) ==
  [isDevelopment |-> isDevelopment,
   values |-> [x \in ScopeSet \X Fields |->
                 IF EnvLimits[x[1]][x[2]] = 1 THEN <<"1">> ELSE <<"2">>]]

----------------------------------------------------------------------------
(* One bucket store: the limiter's consume *)

\* MemoryStorage.incrby: add a point to a live record, else start a new window
Incrby(st, key, t, durationSec) ==
  IF key \in DOMAIN st /\ st[key].expiresAt - t > 0
  THEN [rec |-> [value |-> st[key].value + 1, expiresAt |-> st[key].expiresAt],
        msBeforeNext |-> st[key].expiresAt - t, isFirstInDuration |-> FALSE]
  ELSE [rec |-> [value |-> 1, expiresAt |-> t + durationSec * 1000],
        msBeforeNext |-> durationSec * 1000, isFirstInDuration |-> TRUE]

\* RateLimiterMemory.consume(key): the new record and the result that resolves or rejects
Consume(lim, st, key, t) ==
  LET inc == Incrby(st, key, t, lim.duration)
      consumedPoints == inc.rec.value
  IN IF consumedPoints > lim.points
     THEN IF lim.blockDuration > 0 /\ consumedPoints <= lim.points + 1
          THEN [ok |-> FALSE,
                rec |-> [value |-> consumedPoints, expiresAt |-> t + lim.blockDuration * 1000],
                msBeforeNext |-> lim.blockDuration * 1000,
                remainingPoints |-> 0, consumedPoints |-> consumedPoints,
                isFirstInDuration |-> inc.isFirstInDuration]
          ELSE [ok |-> FALSE, rec |-> inc.rec, msBeforeNext |-> inc.msBeforeNext,
                remainingPoints |-> 0, consumedPoints |-> consumedPoints,
                isFirstInDuration |-> inc.isFirstInDuration]
     ELSE [ok |-> TRUE, rec |-> inc.rec, msBeforeNext |-> inc.msBeforeNext,
           remainingPoints |-> Max(lim.points - consumedPoints, 0),
           consumedPoints |-> consumedPoints,
           isFirstInDuration |-> inc.isFirstInDuration]

Put(f, k, v) == [x \in (DOMAIN f) \cup {k} |-> IF x = k THEN v ELSE f[x]]

\* { ...a, ...b }
Spread(a, b) == [x \in (DOMAIN a) \cup (DOMAIN b) |-> IF x \in DOMAIN b THEN b[x] ELSE a[x]]

----------------------------------------------------------------------------
(* SecurityAuditLogger *)

MaxEvents == 1000              \* events kept in the journal
AlertWindow == 300000          \* getRecentEvents(300000) in checkAlerts

alertThresholds == [failedLogins |-> 5, blockedIPs |-> 3, suspiciousActivity |-> 10]

\* the logger's state as one value, so that a handler can log several events in a row
Journal(ev, st, al) == [events |-> ev, stats |-> st, alerts |-> al]

\* new Date().toISOString(): the instant as seconds and milliseconds of the second
toISOString(t) == [sec |-> t \div 1000, ms |-> t % 1000]

\* new Date(event.timestamp).getTime()
getTime(iso) == iso.sec * 1000 + iso.ms

getRecentEvents(evs, t, timeWindow) ==
  SelectSeq(evs, LAMBDA e : t - getTime(e.timestamp) < timeWindow)

updateStats(st, type) ==
  LET s1 == [st EXCEPT !.totalRequests = @ + 1]
  IN CASE type = "login_attempt" -> [s1 EXCEPT !.failedLogins = @ + 1]
       [] type \in {"ip_blocked", "rate_limit_violation", "security_attack"} ->
            [s1 EXCEPT !.blockedRequests = @ + 1]
       [] type = "suspicious_activity" -> [s1 EXCEPT !.suspiciousActivities = @ + 1]
       [] OTHER -> s1

\* checkAlerts that alerts above the threshold only
checkAlertsAbove(al, evs, type, t) ==
  LET recentEvents == getRecentEvents(evs, t, AlertWindow)
      typeEvents == SelectSeq(recentEvents, LAMBDA e : e.type = type)
      a1 == IF type = "login_attempt" /\ Len(typeEvents) > alertThresholds.failedLogins
            THEN [al EXCEPT !.MULTIPLE_FAILED_LOGINS = @ + 1] ELSE al
      a2 == IF type = "ip_blocked" /\ Len(typeEvents) > alertThresholds.blockedIPs
            THEN [a1 EXCEPT !.MULTIPLE_IP_BLOCKS = @ + 1] ELSE a1
  IN IF type = "suspicious_activity" /\ Len(typeEvents) > alertThresholds.suspiciousActivity
     THEN [a2 EXCEPT !.HIGH_SUSPICIOUS_ACTIVITY = @ + 1] ELSE a2

\* checkAlerts(type) with triggerAlert counted per alert type
checkAlerts(al, evs, type, t) ==
  LET recentEvents == getRecentEvents(evs, t, AlertWindow)
      typeEvents == SelectSeq(recentEvents, LAMBDA e : e.type = type)
      a1 == IF type = "login_attempt" /\ Len(typeEvents) >= alertThresholds.failedLogins
            THEN [al EXCEPT !.MULTIPLE_FAILED_LOGINS = @ + 1] ELSE al
      a2 == IF type = "ip_blocked" /\ Len(typeEvents) >= alertThresholds.blockedIPs
            THEN [a1 EXCEPT !.MULTIPLE_IP_BLOCKS = @ + 1] ELSE a1
  IN IF type = "suspicious_activity" /\ Len(typeEvents) >= alertThresholds.suspiciousActivity
     THEN [a2 EXCEPT !.HIGH_SUSPICIOUS_ACTIVITY = @ + 1] ELSE a2

\* logSecurityEvent that trims the journal one insertion late
logSecurityEventLateShift(j, type, ip, userAgent, detail, severity, t) ==
  LET event == [timestamp |-> toISOString(t), type |-> type, severity |-> severity,
                ip |-> IF ip = <<>> THEN <<"unknown">> ELSE ip,
                userAgent |-> IF userAgent = <<>> THEN <<"unknown">> ELSE userAgent,
                detail |-> detail]
      pushed == Append(j.events, event)
  IN [events |-> IF Len(pushed) > MaxEvents + 1 THEN Tail(pushed) ELSE pushed,
      stats  |-> updateStats(j.stats, type),
      alerts |-> checkAlerts(j.alerts, pushed, type, t)]

\* logSecurityEvent(type, details, severity); the random event id is left out
logSecurityEvent(j, type, ip, userAgent, detail, severity, t) ==
  LET event == [timestamp |-> toISOString(t), type |-> type, severity |-> severity,
                ip |-> IF ip = <<>> THEN <<"unknown">> ELSE ip,
                userAgent |-> IF userAgent = <<>> THEN <<"unknown">> ELSE userAgent,
                detail |-> detail]
      pushed == Append(j.events, event)
  IN [events |-> IF Len(pushed) > MaxEvents THEN Tail(pushed) ELSE pushed,
      stats  |-> updateStats(j.stats, type),
      alerts |-> checkAlerts(j.alerts, pushed, type, t)]

\* logLoginAttempt(username, ip, userAgent, success)
logLoginAttempt(j, ip, userAgent, success, t) ==
  logSecurityEvent(j, "login_attempt", ip, userAgent, "",
                   IF success THEN "info" ELSE "warning", t)

logIPBlock(j, ip, t) == logSecurityEvent(j, "ip_blocked", ip, <<>>, "", "warning", t)

logSuspiciousActivity(j, ip, userAgent, activity, t) ==
  logSecurityEvent(j, "suspicious_activity", ip, userAgent, activity, "warning", t)

\* logRateLimitViolation that records nothing
logRateLimitViolationSilent(j, ip, userAgent, t) == j

logRateLimitViolation(j, ip, userAgent, t) ==
  logSecurityEvent(j, "rate_limit_violation", ip, userAgent, "", "warning", t)

logSecurityAttack(j, type, ip, userAgent, t) ==
  logSecurityEvent(j, "security_attack", ip, userAgent, type, "error", t)

\* calculateRiskLevel that gives an error the weight of a warning
calculateRiskLevelFlat(recentEvents) ==
  LET errors == Len(SelectSeq(recentEvents, LAMBDA e : e.severity = "error"))
      warnings == Len(SelectSeq(recentEvents, LAMBDA e : e.severity = "warning"))
      score == errors + warnings
  IN IF score >= 20 THEN "HIGH"
     ELSE IF score >= 10 THEN "MEDIUM"
     ELSE IF score >= 5 THEN "LOW"
     ELSE "MINIMAL"

calculateRiskLevel(recentEvents) ==
  LET errors == Len(SelectSeq(recentEvents, LAMBDA e : e.severity = "error"))
      warnings == Len(SelectSeq(recentEvents, LAMBDA e : e.severity = "warning"))
      score == (errors * 3) + (warnings * 1)
  IN IF score >= 20 THEN "HIGH"
     ELSE IF score >= 10 THEN "MEDIUM"
     ELSE IF score >= 5 THEN "LOW"
     ELSE "MINIMAL"

\* getSecurityStats() at time t
getSecurityStats(j, t) ==
  LET recentEvents == getRecentEvents(j.events, t, AlertWindow)
  IN [totalRequests |-> j.stats.totalRequests,
      blockedRequests |-> j.stats.blockedRequests,
      failedLogins |-> j.stats.failedLogins,
      suspiciousActivities |-> j.stats.suspiciousActivities,
      recentEvents |-> Len(recentEvents),
      activeThreats |-> Len(SelectSeq(recentEvents, LAMBDA e : e.severity = "error")),
      riskLevel |-> calculateRiskLevel(recentEvents)]

\* The keys of the object that counts ks, in the order Object.entries gives them: the order
\* in which the keys were first assigned (no key here is the decimal form of an integer)
RECURSIVE Keys(_)
Keys(ks) ==
  IF ks = <<>> THEN <<>>
  ELSE LET front == Keys(SubSeq(ks, 1, Len(ks) - 1))
           k == ks[Len(ks)]
       IN IF \E i \in 1..Len(front) : front[i] = k THEN front ELSE Append(front, k)

\* Object.entries(counts) after the forEach that counts the keys ks
Entries(ks) ==
  LET keyList == Keys(ks)
  IN [i \in 1..Len(keyList) |->
        [key |-> keyList[i], count |-> Cardinality({n \in 1..Len(ks) : ks[n] = keyList[i]})]]

\* .sort(([,a], [,b]) => b - a): by count, largest first; entries of equal count keep their order
RECURSIVE SortByCount(_)
SortByCount(es) ==
  IF es = <<>> THEN <<>>
  ELSE LET sorted == SortByCount(SubSeq(es, 1, Len(es) - 1))
           e == es[Len(es)]
           k == Cardinality({i \in 1..Len(sorted) : sorted[i].count >= e.count})
       IN SubSeq(sorted, 1, k) \o <<e>> \o SubSeq(sorted, k + 1, Len(sorted))

\* .slice(0, n)
Slice(es, n) == SubSeq(es, 1, IF Len(es) < n THEN Len(es) ELSE n)

getTopAttackTypes(evs) ==
  LET attacks == SelectSeq(evs, LAMBDA e : e.type = "security_attack")
      types == [i \in 1..Len(attacks) |-> attacks[i].detail]
  IN Slice(SortByCount(Entries(types)), 5)

\* getTopAttackIPs that takes the first five addresses before it sorts them
getTopAttackIPsFirstFive(evs) ==
  LET attacks == SelectSeq(evs, LAMBDA e : e.severity = "warning" \/ e.severity = "error")
      ips == [i \in 1..Len(attacks) |-> attacks[i].ip]
  IN SortByCount(Slice(Entries(ips), 5))

getTopAttackIPs(evs) ==
  LET attacks == SelectSeq(evs, LAMBDA e : e.severity = "warning" \/ e.severity = "error")
      ips == [i \in 1..Len(attacks) |-> attacks[i].ip]
  IN Slice(SortByCount(Entries(ips)), 5)

\* generateSecurityReport(): its two rankings
generateSecurityReport(j) ==
  [topAttackTypes |-> getTopAttackTypes(j.events),
   topAttackIPs |-> getTopAttackIPs(j.events),
   made |-> TRUE]

----------------------------------------------------------------------------
(* SecurityMonitor *)

TimeWindow == 60000            \* detectAnomalies: timeWindow
FloodThreshold == 50           \* detectAnomalies: recentRequests.length > 50
BlockMs == 3600000             \* blockSuspiciousIP: setTimeout(..., 60 * 60 * 1000)

\* case-insensitive matching (the i flag): the lower-case form of a piece
Lower(tok) ==
  CASE tok = "SCRIPT" -> "script"
    [] tok = "%3c" -> "%3C"
    [] tok = "%3e" -> "%3E"
    [] tok = "Select" -> "select"
    [] tok = "DROP" -> "drop"
    [] OTHER -> tok

LowerSeq(s) == [i \in 1..Len(s) |-> Lower(s[i])]

IsSpace(tok) == tok \in {" ", "\t", "\n"}

Tag(s, name) ==
  \E i \in 1..(Len(s) - 2) :
     s[i] \in {"<", "%3C"} /\ s[i + 1] = name /\ s[i + 2] \in {">", "%3E"}

\* (;|%3B)(\s)*(drop|delete|update|insert)
Stacked(s) ==
  \E i \in 1..Len(s) : \E k \in (i + 1)..Len(s) :
     /\ s[i] \in {";", "%3B"}
     /\ \A m \in (i + 1)..(k - 1) : IsSpace(s[m])
     /\ s[k] \in {"drop", "delete", "update", "insert"}

\* suspiciousPatterns[index].test(requestData), index 0..5
PatternTest(index, data) ==
  LET s == LowerSeq(data)
  IN CASE index = 0 -> Tag(s, "script")
       [] index = 1 -> Tag(s, "iframe")
       [] index = 2 -> \E i \in 1..Len(s) : s[i] = "javascript:"
       [] index = 3 -> \E i \in 1..Len(s) : s[i] = "vbscript:"
       [] index = 4 -> \E i \in 1..(Len(s) - 1) :
                          /\ s[i] \in {"union", "select", "insert", "update", "delete",
                                       "drop", "create", "alter"}
                          /\ IsSpace(s[i + 1])
       [] OTHER -> Stacked(s)

\* the threats list of detectThreats: the indices of the matching patterns, in order
Scan(data) == SelectSeq(<<0, 1, 2, 3, 4, 5>>, LAMBDA index : PatternTest(index, data))

\* JSON.stringify(req.body) of the parsed body object, whose content is the pieces b
JSONStringify(b) == <<"{">> \o b \o <<"}">>

RequestData(req) == JSONStringify(req.body) \o req.path \o req.query \o req.ua

BagAdd(b, k) == IF k \in DOMAIN b THEN [b EXCEPT ![k] = @ + 1] ELSE Put(b, k, 1)

\* the timers left when all the timers of the key k have run
RunTimers(b, k) == [x \in (DOMAIN b) \ {k} |-> b[x]]

\* The monitor and the journal as one value m:
\*   [blockedIPs, timers, anomalies, arrivals, j]

\* blockSuspiciousIP that schedules no unblocking
blockSuspiciousIPNoTimer(m, ip, t) ==
  [m EXCEPT !.blockedIPs = @ \cup {ip},
            !.j = logIPBlock(@, ip, t)]

\* blockSuspiciousIP whose timer is due one second before the block duration has passed
blockSuspiciousIPEarlyTimer(m, ip, t) ==
  [m EXCEPT !.blockedIPs = @ \cup {ip},
            !.j = logIPBlock(@, ip, t),
            !.timers = BagAdd(@, <<ip, t + BlockMs - 1000>>)]

blockSuspiciousIP(m, ip, t) ==
  [m EXCEPT !.blockedIPs = @ \cup {ip},
            !.j = logIPBlock(@, ip, t),
            !.timers = BagAdd(@, <<ip, t + BlockMs>>)]

\* the traversal test without the backslash form
IsTraversalSlashOnly(path) == Includes(path, <<"..", "/">>)

IsTraversal(path) == Includes(path, <<"..", "/">>) \/ Includes(path, <<"..", "\\">>)

\* the trimming that keeps an entry which is exactly one window old
recentRequestsInclusive(requests, t) == SelectSeq(requests, LAMBDA ts : t - ts <= TimeWindow)

\* requests.filter(r => now - r.timestamp < timeWindow)
recentRequests(requests, t) == SelectSeq(requests, LAMBDA ts : t - ts < TimeWindow)

\* detectAnomalies that flags at the threshold instead of above it
detectAnomaliesAtThreshold(m, clientId, req, t) ==
  LET requests == IF clientId \in DOMAIN m.anomalies THEN m.anomalies[clientId] ELSE <<>>
      pushed == Append(requests, t)
      recent == recentRequests(pushed, t)
      seen == IF clientId \in DOMAIN m.arrivals THEN m.arrivals[clientId] ELSE <<>>
      m1 == [m EXCEPT !.anomalies = Put(@, clientId, recent),
                      !.arrivals = Put(@, clientId, Append(seen, t))]
      m2 == IF Len(recent) >= FloodThreshold
            THEN blockSuspiciousIP(
                   [m1 EXCEPT !.j = logSuspiciousActivity(@, req.ip, req.ua, "potential_ddos", t)],
                   req.ip, t)
            ELSE m1
  IN IF IsTraversal(req.path)
     THEN blockSuspiciousIP(
            [m2 EXCEPT !.j = logSuspiciousActivity(@, req.ip, req.ua, "path_traversal", t)],
            req.ip, t)
     ELSE m2

detectAnomalies(m, clientId, req, t) ==
  LET requests == IF clientId \in DOMAIN m.anomalies THEN m.anomalies[clientId] ELSE <<>>
      pushed == Append(requests, t)
      recent == recentRequests(pushed, t)
      seen == IF clientId \in DOMAIN m.arrivals THEN m.arrivals[clientId] ELSE <<>>
      m1 == [m EXCEPT !.anomalies = Put(@, clientId, recent),
                      !.arrivals = Put(@, clientId, Append(seen, t))]
      m2 == IF Len(recent) > FloodThreshold
            THEN blockSuspiciousIP(
                   [m1 EXCEPT !.j = logSuspiciousActivity(@, req.ip, req.ua, "potential_ddos", t)],
                   req.ip, t)
            ELSE m1
  IN IF IsTraversal(req.path)
     THEN blockSuspiciousIP(
            [m2 EXCEPT !.j = logSuspiciousActivity(@, req.ip, req.ua, "path_traversal", t)],
            req.ip, t)
     ELSE m2

----------------------------------------------------------------------------
(* Requests *)

NoUser == ""                   \* req.user?.id is undefined

Idle == [ip |-> <<>>, ua |-> <<>>, userId |-> NoUser, path |-> <<>>,
         pc |-> "idle", status |-> 0, reason |-> "", consumed |-> <<>>,
         retryAfter |-> 0, remaining |-> 0, threats |-> <<>>, sets |-> <<>>]

\* a request as received: nothing decided yet
Received(inp) ==
  [Idle EXCEPT !.ip = inp.ip, !.ua = inp.ua, !.userId = inp.userId,
               !.path = inp.path, !.pc = "received"]

\* a request as the middleware chain sees it
Inp(ip, ua, userId, path) ==
  [ip |-> ip, ua |-> ua, userId |-> userId, path |-> path, query |-> <<>>, body |-> <<>>]

With(inp, query, body) == [inp EXCEPT !.query = query, !.body = body]

\* The limiters are RateLimiterMemory: consume() settles its promise before it returns, so
\* what follows an await in checkLimits is a microtask, and it runs before any other request
\* handler and before any timer.  Handlers and the clock wait for Quiescent.
Quiescent == cur.pc = "idle"

\* the request moves on: it stays current while it waits, and is recorded when answered
Settle(rq) ==
  IF rq.pc = "done"
  THEN cur' = Idle /\ last' = rq
  ELSE cur' = rq /\ UNCHANGED last

----------------------------------------------------------------------------
(* AdvancedRateLimiter.checkLimits *)

\* The buckets, their counters and the journal as one value q: [buckets, granted, tripped, j],
\* with the number (set) of the limiter set that this.limiters holds

IpKey(rq) == IF rq.ip = <<>> THEN <<"unknown">> ELSE rq.ip    \* req.ip || 'unknown'

ScopeKey(rq, scope) ==
  CASE scope = "ip" -> IpKey(rq)
    [] scope = "user" -> <<rq.userId>>
    [] OTHER -> IpKey(rq) \o <<"_login">>

IsLogin(rq) == Includes(rq.path, <<"/", "login">>)            \* req.path.includes('/login')

\* the exemption test without startsWith
IsExemptExact(cfg, rq) == \E p \in cfg.exemptPaths : rq.path = p

IsExempt(cfg, rq) == \E p \in cfg.exemptPaths : rq.path = p \/ StartsWith(rq.path, p)

\* where checkLimits goes after the consumption on scope was allowed
PcAfter(rq, scope) ==
  CASE scope = "ip" -> IF rq.userId # NoUser THEN "user"
                       ELSE IF IsLogin(rq) THEN "login" ELSE "done"
    [] scope = "user" -> IF IsLogin(rq) THEN "login" ELSE "done"
    [] OTHER -> "done"

\* Math.round(msBeforeNext / 1000) || 1, with msBeforeNext = rejRes.msBeforeNext || 1000
SecondsToWait(ms) ==
  LET msBeforeNext == IF ms = 0 THEN 1000 ELSE ms
      rounded == RoundSeconds(msBeforeNext)
  IN IF rounded = 0 THEN 1 ELSE rounded

\* ConsumeStep where a rejection is answered but does not end the chain of consumptions
ConsumeStepNoStop(rq, q, lims, scope, t) ==
  LET key == ScopeKey(rq, scope)
      c == Consume(lims[scope], q.buckets[scope], key, t)
      before == IF c.isFirstInDuration \/ key \notin DOMAIN q.granted[scope]
                THEN 0 ELSE q.granted[scope][key]
      q1 == [q EXCEPT !.buckets[scope] = Put(@, key, c.rec),
                      !.granted[scope] = Put(@, key, before + (IF c.ok THEN 1 ELSE 0))]
      rejected == rq.status = 429 \/ ~c.ok
  IN [rq |-> [rq EXCEPT !.consumed = Append(@, scope), !.sets = Append(@, q.set),
                         !.pc = PcAfter(rq, scope),
                         !.status = IF rejected THEN 429
                                    ELSE IF PcAfter(rq, scope) = "done" THEN 200 ELSE 0,
                         !.reason = IF rq.status = 429 THEN rq.reason
                                    ELSE IF c.ok THEN "" ELSE scope,
                         !.retryAfter = IF c.ok THEN rq.retryAfter
                                        ELSE SecondsToWait(c.msBeforeNext)],
      q |-> IF c.ok THEN q1
            ELSE [q1 EXCEPT !.j = logRateLimitViolation(@, IpKey(rq), rq.ua, t),
                            !.tripped[scope] = @ \cup {key}]]

\* ConsumeStep where the catch block gives back the points that the request consumed on the
\* scopes before the one that rejects it
ConsumeStepRollback(rq, q, lims, scope, t) ==
  LET key == ScopeKey(rq, scope)
      c == Consume(lims[scope], q.buckets[scope], key, t)
      before == IF c.isFirstInDuration \/ key \notin DOMAIN q.granted[scope]
                THEN 0 ELSE q.granted[scope][key]
      q1 == [q EXCEPT !.buckets[scope] = Put(@, key, c.rec),
                      !.granted[scope] = Put(@, key, before + (IF c.ok THEN 1 ELSE 0))]
      earlier == {rq.consumed[i] : i \in 1..Len(rq.consumed)}
      refunded == [sc \in ScopeSet |->
                     IF sc \in earlier
                     THEN [q1.buckets[sc] EXCEPT ![ScopeKey(rq, sc)].value = @ - 1]
                     ELSE q1.buckets[sc]]
  IN IF c.ok
     THEN [rq |-> [rq EXCEPT !.consumed = Append(@, scope), !.sets = Append(@, q.set),
                            !.pc = PcAfter(rq, scope),
                            !.status = IF PcAfter(rq, scope) = "done" THEN 200 ELSE 0],
           q |-> q1]
     ELSE [rq |-> [rq EXCEPT !.consumed = Append(@, scope), !.sets = Append(@, q.set),
                            !.pc = "done", !.status = 429, !.reason = scope,
                            !.retryAfter = SecondsToWait(c.msBeforeNext),
                            !.remaining = c.remainingPoints],
           q |-> [q1 EXCEPT !.buckets = refunded,
                            !.j = logRateLimitViolation(@, IpKey(rq), rq.ua, t),
                            !.tripped[scope] = @ \cup {key}]]

\* await this.limiters[scope].consume(key), then either the next statement or the catch block
ConsumeStep(rq, q, lims, scope, t) ==
  LET key == ScopeKey(rq, scope)
      c == Consume(lims[scope], q.buckets[scope], key, t)
      before == IF c.isFirstInDuration \/ key \notin DOMAIN q.granted[scope]
                THEN 0 ELSE q.granted[scope][key]
      q1 == [q EXCEPT !.buckets[scope] = Put(@, key, c.rec),
                      !.granted[scope] = Put(@, key, before + (IF c.ok THEN 1 ELSE 0))]
  IN IF c.ok
     THEN [rq |-> [rq EXCEPT !.consumed = Append(@, scope), !.sets = Append(@, q.set),
                            !.pc = PcAfter(rq, scope),
                            !.status = IF PcAfter(rq, scope) = "done" THEN 200 ELSE 0],
           q |-> q1]
     ELSE [rq |-> [rq EXCEPT !.consumed = Append(@, scope), !.sets = Append(@, q.set),
                            !.pc = "done", !.status = 429, !.reason = scope,
                            !.retryAfter = SecondsToWait(c.msBeforeNext),
                            !.remaining = c.remainingPoints],
           q |-> [q1 EXCEPT !.j = logRateLimitViolation(@, IpKey(rq), rq.ua, t),
                            !.tripped[scope] = @ \cup {key}]]

\* checkLimits from its start to its first await
EnterCheckLimits(rq, q, lims, cfg, ready, t) ==
  IF ~ready \/ IsExempt(cfg, rq)
  THEN [rq |-> [rq EXCEPT !.pc = "done", !.status = 200], q |-> q]
  ELSE ConsumeStep(rq, q, lims, "ip", t)

LimiterState ==
  [buckets |-> buckets, granted |-> granted, tripped |-> tripped,
   j |-> Journal(events, stats, alerts), set |-> generation]

SetLimiterState(q) ==
  /\ buckets' = q.buckets
  /\ granted' = q.granted
  /\ tripped' = q.tripped
  /\ events' = q.j.events
  /\ stats' = q.j.stats
  /\ alerts' = q.j.alerts

\* a request handed to checkLimits directly
CheckLimits(inp) ==
  /\ Quiescent
  /\ nreq < MaxReq
  /\ LET out == EnterCheckLimits(Received(inp), LimiterState, limiters,
                                 config, initialized, now)
     IN /\ Settle(out.rq)
        /\ SetLimiterState(out.q)
  /\ nreq' = nreq + 1
  /\ UNCHANGED <<now, config, limiters, initialized, adminVars, monitorVars, jwtVars, restVars>>

\* checkLimits resumes after an await and consumes on the next scope
Resume(scope) ==
  /\ LET out == ConsumeStep(cur, LimiterState, limiters, scope, now)
     IN /\ Settle(out.rq)
        /\ SetLimiterState(out.q)
  /\ UNCHANGED <<now, nreq, config, limiters, initialized, adminVars, monitorVars, jwtVars, restVars>>

ResumeUser ==
  /\ cur.pc = "user"
  /\ Resume("user")

ResumeLogin ==
  /\ cur.pc = "login"
  /\ Resume("login")

----------------------------------------------------------------------------
(* Time *)

Live(st, t) == [k \in {x \in DOMAIN st : st[x].expiresAt > t} |-> st[k]]

\* the times left until the pending unblock timers are due
TimerGaps == {k[2] - now : k \in {x \in DOMAIN timers : x[2] > now}}

\* The clock advances by d: by a step up to the horizon, or to the time a timer is due.  The
\* bucket stores drop the records that expire (their timeouts), and an unblock timer that is
\* due fires before the clock moves past it.
Advance(d, horizon) ==
  /\ Quiescent
  /\ now + d <= horizon \/ d \in TimerGaps
  /\ \A k \in DOMAIN timers : now + d <= k[2]
  /\ now' = now + d
  /\ buckets' = [sc \in ScopeSet |-> Live(buckets[sc], now + d)]
  /\ granted' = [sc \in ScopeSet |->
                   [k \in DOMAIN buckets'[sc] |-> granted[sc][k]]]
  /\ UNCHANGED <<config, limiters, initialized, adminVars, tripped, cur, last, nreq, monitorVars,
               journalVars, jwtVars, restVars>>

Tick(d) ==
  /\ d > 0
  /\ Advance(d, MaxTime)

----------------------------------------------------------------------------
(* AdvancedRateLimiter: init, reset, updateConfig *)

Null == "null"

\* the limiter object as one value
Limiter ==
  [config |-> config, limiters |-> limiters, initialized |-> initialized,
   redisClient |-> redisClient, generation |-> generation,
   buckets |-> buckets, granted |-> granted]

SetLimiter(lim) ==
  /\ config' = lim.config
  /\ limiters' = lim.limiters
  /\ initialized' = lim.initialized
  /\ redisClient' = lim.redisClient
  /\ generation' = lim.generation
  /\ buckets' = lim.buckets
  /\ granted' = lim.granted

\* this.setupLimiters(): a new set of RateLimiterMemory, each with a storage of its own
WithMemoryLimiters(lim) ==
  [lim EXCEPT !.limiters = setupLimiters(lim.config),
              !.generation = @ + 1,
              !.buckets = [sc \in ScopeSet |-> <<>>],
              !.granted = [sc \in ScopeSet |-> <<>>],
              !.initialized = TRUE]

\* the options each RateLimiterRedis is constructed with
setupRedisLimiters(cfg) ==
  [sc \in ScopeSet |-> [points |-> cfg[sc].points, duration |-> cfg[sc].duration,
                        blockDuration |-> cfg[sc].blockDuration, store |-> "redis"]]

\* what initRedis() gives init(): a connected client, null, or an exception
StoreOutcomes == {"client", Null, "throws"}

\* init that gives the limiter up when the store is not reachable
initGiveUp(lim, outcome) ==
  IF outcome = "client" THEN lim ELSE [lim EXCEPT !.initialized = FALSE]

\* init(); the keys of this prefix in the shared store are taken to be none at the swap
init(lim, outcome) ==
  IF lim.initialized
  THEN lim
  ELSE LET connected ==
             IF outcome = "client"
             THEN [lim EXCEPT !.redisClient = "client",
                              !.limiters = setupRedisLimiters(lim.config),
                              !.generation = @ + 1,
                              !.buckets = [sc \in ScopeSet |-> <<>>],
                              !.granted = [sc \in ScopeSet |-> <<>>]]
             ELSE lim
       IN [connected EXCEPT !.initialized = TRUE]

\* reset that builds the new limiters on the storage of the old ones
resetKeepBuckets(lim, deleted) ==
  [lim EXCEPT !.limiters = setupLimiters(lim.config), !.generation = @ + 1]

\* reset(); deleted tells whether redisClient.keys and del succeeded, an exception of theirs
\* is caught and setupLimiters() follows in both cases
reset(lim, deleted) == WithMemoryLimiters(lim)

\* updateConfig that does not look at the environment
updateConfigAnyEnv(lim, newConfig) ==
  [lim |-> WithMemoryLimiters([lim EXCEPT !.config = Spread(lim.config, newConfig)]),
   result |-> TRUE]

\* updateConfig(newConfig) and the value it returns
updateConfig(lim, newConfig) ==
  IF lim.config.environment # "development"
  THEN [lim |-> lim, result |-> FALSE]
  ELSE [lim |-> WithMemoryLimiters([lim EXCEPT !.config = Spread(lim.config, newConfig)]),
        result |-> TRUE]

\* no call yet
NoCall == [op |-> "", arg |-> <<>>, ok |-> TRUE, nreq |-> 0, set |-> 1]

Called(op, arg, ok) ==
  admin' = [op |-> op, arg |-> arg, ok |-> ok, nreq |-> nreq, set |-> generation']

adminRest == <<now, tripped, cur, last, nreq, env, monitorVars, journalVars, jwtVars, restVars>>

\* init, reset and updateConfig are methods of the exported limiter.  With redisClient null
\* reset reaches setupLimiters without an await, like updateConfig: a call of theirs runs as
\* one step, and the code that started a checkLimits can make it while that checkLimits
\* waits at an await, before its continuation runs.
CallInit(outcome) ==
  /\ SetLimiter(init(Limiter, outcome))
  /\ Called("init", [store |-> outcome], TRUE)
  /\ UNCHANGED adminRest

CallReset(deleted) ==
  /\ generation < MaxSets
  /\ SetLimiter(reset(Limiter, deleted))
  /\ Called("reset", [deleted |-> deleted], TRUE)
  /\ UNCHANGED adminRest

CallUpdateConfig(newConfig) ==
  /\ generation < MaxSets
  /\ LET u == updateConfig(Limiter, newConfig)
     IN SetLimiter(u.lim) /\ Called("updateConfig", newConfig, u.result)
  /\ UNCHANGED adminRest

----------------------------------------------------------------------------
(* JWTManager *)

Undefined == "undefined"

\* process.env.JWT_SECRET, which app.js requires to be set
JWT_SECRET == "env-secret"

\* what secretManager.getSecret can give: the secret, undefined (the variable is not set and
\* the vault is not used), or a rejection
PrimaryOutcomes == {"primary-secret", Undefined, "throws"}
SecondaryOutcomes == {"secondary-secret", "throws"}

\* generateKeyId(): the n-th random key id
KeyIds == <<"k1", "k2", "k3", "k4", "k5", "k6">>

generateKeyId(n) == KeyIds[n]

\* Map.prototype.get
Get(m, k) == IF k \in DOMAIN m THEN m[k] ELSE Undefined

\* a || b on secrets: undefined and the empty string are falsy
OrElse(a, b) == IF a = Undefined \/ a = "" THEN b ELSE a


TokenLife == 21600             \* signToken: exp = now + 6 * 60 * 60 (seconds)

\* jwt.sign(payload, secret, {algorithm: 'HS256', header}): a token is its header key id, its
\* payload and the secret its signature was made with; given and at record the claims object
\* that signToken was called with and the time of the call
jwtSign(payload, secret, kid, given, at) ==
  [kid |-> kid, payload |-> payload, sig |-> secret, given |-> given, at |-> at]

\* jwt.verify(token, key) at time t
jwtVerify(tok, key, t) ==
  IF tok.sig # key THEN [ok |-> FALSE, reason |-> "invalid signature", payload |-> <<>>]
  ELSE IF t \div 1000 >= tok.payload.exp
       THEN [ok |-> FALSE, reason |-> "jwt expired", payload |-> <<>>]
       ELSE [ok |-> TRUE, reason |-> "", payload |-> tok.payload]

\* the manager's state as one value mgr: [keys, currentKeyId, blacklistedTokens]
signToken(mgr, payload, jti, t) ==
  LET secs == t \div 1000
      tokenPayload == Spread(payload,
                             [iat |-> secs, exp |-> secs + TokenLife, jti |-> jti,
                              kid |-> mgr.currentKeyId, iss |-> "auth-service",
                              aud |-> "api-gateway"])
      secret == Get(mgr.keys, mgr.currentKeyId)
  IN IF secret = Undefined
     THEN [ok |-> FALSE, reason |-> "secretOrPrivateKey must have a value", token |-> <<>>]
     ELSE [ok |-> TRUE, reason |-> "",
           token |-> jwtSign(tokenPayload, secret, mgr.currentKeyId, payload, t)]

\* verifyToken that does not look at the blacklist
verifyTokenNoBlacklist(mgr, tok, t) ==
  LET key == OrElse(Get(mgr.keys, tok.kid), Get(mgr.keys, "backup"))
  IN IF key = Undefined
     THEN [ok |-> FALSE, reason |-> "Chave não encontrada", payload |-> <<>>]
     ELSE jwtVerify(tok, key, t)

verifyToken(mgr, tok, t) ==
  IF tok.payload.jti \in mgr.blacklistedTokens
  THEN [ok |-> FALSE, reason |-> "Token revogado", payload |-> <<>>]
  ELSE LET key == OrElse(Get(mgr.keys, tok.kid), Get(mgr.keys, "backup"))
       IN IF key = Undefined
          THEN [ok |-> FALSE, reason |-> "Chave não encontrada", payload |-> <<>>]
          ELSE jwtVerify(tok, key, t)

\* rotateKeys that forgets the old key instead of moving it to the backup slot
rotateKeysDropOld(mgr, newKeyId) ==
  LET kept == [k \in (DOMAIN mgr.keys) \ {mgr.currentKeyId} |-> mgr.keys[k]]
  IN [mgr EXCEPT !.keys = Put(kept, newKeyId, JWT_SECRET),
                 !.currentKeyId = newKeyId]

rotateKeys(mgr, newKeyId) ==
  LET oldKey == Get(mgr.keys, mgr.currentKeyId)
  IN [mgr EXCEPT !.keys = Put(Put(@, "backup", oldKey), newKeyId, JWT_SECRET),
                 !.currentKeyId = newKeyId]

\* the catch block of loadKeys
loadKeysFallback(mgr) ==
  [mgr EXCEPT !.keys = Put(Put(@, mgr.currentKeyId, JWT_SECRET), "backup", JWT_SECRET)]

Manager == [keys |-> keys, currentKeyId |-> currentKeyId,
            blacklistedTokens |-> blacklistedTokens]

SetManager(mgr) ==
  /\ keys' = mgr.keys
  /\ currentKeyId' = mgr.currentKeyId
  /\ blacklistedTokens' = mgr.blacklistedTokens

NoVerdict == [op |-> "", ok |-> TRUE, reason |-> "", token |-> <<>>, payload |-> <<>>]

\* the state the constructor leaves: loadKeys() has been called and waits at its first await
InitJwt ==
  /\ keys = <<>>
  /\ currentKeyId = generateKeyId(1)
  /\ nkeys = 1
  /\ retired = [id |-> "", secret |-> Undefined]
  /\ blacklistedTokens = {}
  /\ loading = [pc |-> "primary", primaryKey |-> Undefined]
  /\ issued = {}
  /\ verdict = NoVerdict

\* no report made yet, and the RefreshTokenManager after its constructor
NoReport == [topAttackTypes |-> <<>>, topAttackIPs |-> <<>>, made |-> FALSE]

NoRefresh == [op |-> "", token |-> 0, userId |-> "", ok |-> TRUE, redeemed |-> <<>>]

InitRest ==
  /\ report = NoReport
  /\ tokenStore = <<>>
  /\ refreshed = NoRefresh

otherVars == <<limiterVars, monitorVars, journalVars, cur, last, nreq, restVars>>

\* loadKeys resumes after its first await
LoadPrimary(outcome) ==
  /\ loading.pc = "primary"
  /\ IF outcome = "throws"
     THEN /\ SetManager(loadKeysFallback(Manager))
          /\ loading' = [loading EXCEPT !.pc = "done"]
     ELSE /\ loading' = [pc |-> "secondary", primaryKey |-> outcome]
          /\ UNCHANGED <<keys, currentKeyId, blacklistedTokens>>
  /\ UNCHANGED <<now, otherVars, nkeys, retired, issued, verdict>>

\* loadKeys resumes after its second await
LoadSecondary(outcome) ==
  /\ loading.pc = "secondary"
  /\ IF outcome = "throws"
     THEN SetManager(loadKeysFallback(Manager))
     ELSE /\ keys' = Put(Put(keys, currentKeyId, loading.primaryKey), "backup", outcome)
          /\ UNCHANGED <<currentKeyId, blacklistedTokens>>
  /\ loading' = [loading EXCEPT !.pc = "done"]
  /\ UNCHANGED <<now, otherVars, nkeys, retired, issued, verdict>>

\* crypto.randomUUID(): an id never given before
NextJti == <<"jti", Cardinality(issued) + 1>>

SignToken(payload) ==
  /\ LET r == signToken(Manager, payload, NextJti, now)
     IN /\ issued' = IF r.ok THEN issued \cup {r.token} ELSE issued
        /\ verdict' = [op |-> "sign", ok |-> r.ok, reason |-> r.reason, token |-> r.token,
                       payload |-> <<>>]
  /\ UNCHANGED <<now, otherVars, keys, currentKeyId, blacklistedTokens, loading, nkeys,
               retired>>

\* a failure inside the try block is rethrown as 'Token inválido: ' + its message
VerifyToken(tok) ==
  /\ LET r == verifyToken(Manager, tok, now)
     IN verdict' = [op |-> "verify", ok |-> r.ok, reason |-> r.reason, token |-> tok,
                    payload |-> r.payload]
  /\ UNCHANGED <<now, otherVars, keys, currentKeyId, blacklistedTokens, loading, nkeys,
               retired, issued>>

RevokeToken(jti) ==
  /\ blacklistedTokens' = blacklistedTokens \cup {jti}
  /\ UNCHANGED <<now, otherVars, keys, currentKeyId, loading, nkeys, retired, issued,
               verdict>>

RotateKeys ==
  /\ SetManager(rotateKeys(Manager, generateKeyId(nkeys + 1)))
  /\ nkeys' = nkeys + 1
  /\ retired' = [id |-> currentKeyId, secret |-> Get(keys, currentKeyId)]
  /\ UNCHANGED <<now, otherVars, loading, issued, verdict>>

\* the instants at which the manager is called
JwtInstants == {999, 21600000}

JwtTick(t) ==
  /\ t > now
  /\ now' = t
  /\ UNCHANGED <<otherVars, jwtVars, restVars>>

\* the claims objects given to signToken
ClaimsSet == { [sub |-> "u1"], [sub |-> "u2", iss |-> "tenant"] }

\* a token minted elsewhere: its key id is not one of this manager's; it is signed with the
\* service's secret (another worker) or with a secret of the sender's
Foreign(secret) ==
  jwtSign([sub |-> "u9", iat |-> 0, exp |-> TokenLife, jti |-> <<"jti", 0>>, kid |-> "zz",
           iss |-> "auth-service", aud |-> "api-gateway"], secret, "zz", [sub |-> "u9"], 0)

\* a token of this manager whose signature was replaced
Tampered(tok) == [tok EXCEPT !.sig = "forged"]

Presented == issued \cup {Tampered(tok) : tok \in issued} \cup {Foreign(JWT_SECRET)}

NextJwt ==
  \/ \E outcome \in PrimaryOutcomes : LoadPrimary(outcome)
  \/ \E outcome \in SecondaryOutcomes : LoadSecondary(outcome)
  \/ \E payload \in ClaimsSet : Cardinality(issued) < MaxTokens /\ SignToken(payload)
  \/ \E tok \in Presented : VerifyToken(tok)
  \/ \E tok \in Presented :
        Cardinality(blacklistedTokens) < MaxRevoked /\ RevokeToken(tok.payload.jti)
  \/ nkeys <= MaxRotations /\ RotateKeys
  \/ \E t \in JwtInstants : JwtTick(t)

----------------------------------------------------------------------------
(* The limiter on its own *)

InitLimiter ==
  /\ config = getActiveConfig
  /\ limiters = setupLimiters(getActiveConfig)
  /\ initialized = TRUE
  /\ buckets = [sc \in ScopeSet |-> <<>>]
  /\ granted = [sc \in ScopeSet |-> <<>>]
  /\ tripped = [sc \in ScopeSet |-> {}]
  /\ redisClient = Null
  /\ generation = 1
  /\ admin = NoCall
  /\ env = EnvOfLimits(FALSE)

\* the logger after its constructor
EmptyJournal ==
  Journal(<<>>,
          [totalRequests |-> 0, blockedRequests |-> 0, failedLogins |-> 0,
           suspiciousActivities |-> 0],
          [MULTIPLE_FAILED_LOGINS |-> 0, MULTIPLE_IP_BLOCKS |-> 0,
           HIGH_SUSPICIOUS_ACTIVITY |-> 0])

InitMonitor ==
  /\ now = 0
  /\ cur = Idle
  /\ last = Idle
  /\ nreq = 0
  /\ blockedIPs = {}
  /\ timers = <<>>
  /\ anomalies = <<>>
  /\ arrivals = <<>>

InitCommon ==
  /\ InitMonitor
  /\ events = EmptyJournal.events
  /\ stats = EmptyJournal.stats
  /\ alerts = EmptyJournal.alerts

Init == InitCommon /\ InitLimiter /\ InitJwt /\ InitRest

IP1 == <<"10.0.0.1">>
IP2 == <<"10.0.0.1", "2">>
UA1 == <<"curl">>
UA2 == <<"2", "curl">>

LoginPath == <<"/", "login">>

LimiterInputs ==
  { Inp(IP1, UA1, "u1", LoginPath),
    Inp(IP1, UA1, NoUser, LoginPath),
    Inp(IP1, UA1, NoUser, <<"/", "health", "/", "live">>),
    Inp(IP2, UA1, NoUser, <<"/", "login", "-", "help">>) }

LimiterSteps == {400}

NextLimiter ==
  \/ \E inp \in LimiterInputs : CheckLimits(inp)
  \/ ResumeUser
  \/ ResumeLogin
  \/ \E d \in LimiterSteps : Tick(d)

SpecLimiter == Init /\ [][NextLimiter]_vars

----------------------------------------------------------------------------
(* The limiter with its administration: init, reset and updateConfig between requests *)

\* getActiveConfig() under NODE_ENV = development, or under any other value
getActiveConfigOf(isDevelopment) ==
  [getActiveConfig EXCEPT !.environment = IF isDevelopment THEN "development" ELSE "production"]

InitAdmin ==
  /\ InitCommon
  /\ InitJwt
  /\ InitRest
  /\ \E isDevelopment \in BOOLEAN :
        /\ config = getActiveConfigOf(isDevelopment)
        /\ limiters = setupLimiters(getActiveConfigOf(isDevelopment))
        /\ env = EnvOfLimits(isDevelopment)
  /\ initialized = TRUE
  /\ buckets = [sc \in ScopeSet |-> <<>>]
  /\ granted = [sc \in ScopeSet |-> <<>>]
  /\ tripped = [sc \in ScopeSet |-> {}]
  /\ redisClient = Null
  /\ generation = 1
  /\ admin = NoCall

AdminInputs == { Inp(IP1, UA1, "u1", LoginPath), Inp(IP1, UA1, NoUser, LoginPath) }

\* the partial configurations given to updateConfig
NewConfigs ==
  { [login |-> [points |-> 2, duration |-> 2, blockDuration |-> 1]],
    [user |-> [points |-> 0, duration |-> 1, blockDuration |-> 2]],
    [environment |-> "production"] }

AdminHorizon == 1000

AdminSteps == {1000}

AdminTick(d) ==
  /\ d > 0
  /\ Advance(d, AdminHorizon)

NextAdmin ==
  \/ \E inp \in AdminInputs : nreq < MaxAdminReq /\ CheckLimits(inp)
  \/ ResumeUser
  \/ ResumeLogin
  \/ \E outcome \in StoreOutcomes : CallInit(outcome)
  \/ \E deleted \in BOOLEAN : CallReset(deleted)
  \/ \E newConfig \in NewConfigs : CallUpdateConfig(newConfig)
  \/ \E d \in AdminSteps : AdminTick(d)

SpecAdmin == InitAdmin /\ [][NextAdmin]_vars

----------------------------------------------------------------------------
(* The construction of the limiter *)

\* what the variables of the environment hold
RawValues ==
  { <<"0">>, <<"-", "3">>, <<"a", "b", "c">>, <<"2">>, <<"1", ".", "9">>, <<"0", ".", "5">>,
    <<"7", "x">> }

\* the environments in which at most MaxEnvSet of the nine variables are set
Environments ==
  { [isDevelopment |-> b,
     values |-> [x \in ScopeSet \X Fields |-> IF x \in DOMAIN set THEN set[x] ELSE Unset]] :
      b \in BOOLEAN,
      set \in UNION { [names -> RawValues] :
                        names \in {n \in SUBSET (ScopeSet \X Fields) :
                                      Cardinality(n) <= MaxEnvSet} } }

\* null in a field that holds an object
NoObject == <<>>

\* the fields of the object before the constructor has run
InitConstruct ==
  /\ InitCommon
  /\ InitJwt
  /\ InitRest
  /\ env \in Environments
  /\ config = NoObject
  /\ limiters = <<>>
  /\ initialized = FALSE
  /\ redisClient = Null
  /\ generation = 0
  /\ admin = [NoCall EXCEPT !.set = 0]
  /\ buckets = [sc \in ScopeSet |-> <<>>]
  /\ granted = [sc \in ScopeSet |-> <<>>]
  /\ tripped = [sc \in ScopeSet |-> {}]

\* new AdvancedRateLimiter(): it throws before setupLimiters when the validation fails
Construct ==
  /\ admin.op = ""
  /\ LET validation == validateRateLimitConfig(getActiveConfigFrom(env))
     IN IF ~validation.isValid
        THEN /\ admin' = [op |-> "constructor", arg |-> [errors |-> validation.errors],
                          ok |-> FALSE, nreq |-> nreq, set |-> generation]
             /\ UNCHANGED <<config, limiters, initialized, generation>>
        ELSE /\ config' = validation.config
             /\ limiters' = setupLimiters(validation.config)
             /\ initialized' = TRUE
             /\ generation' = generation + 1
             /\ admin' = [op |-> "constructor", arg |-> [errors |-> {}],
                          ok |-> TRUE, nreq |-> nreq, set |-> generation + 1]
  /\ UNCHANGED <<redisClient, buckets, granted, adminRest>>

NextConstruct == Construct

SpecConstruct == InitConstruct /\ [][NextConstruct]_vars

----------------------------------------------------------------------------
(* SecurityMonitor.detectThreats, and the chain app.js mounts: detectThreats, checkLimits *)

MonitorState ==
  [blockedIPs |-> blockedIPs, timers |-> timers, anomalies |-> anomalies,
   arrivals |-> arrivals, j |-> Journal(events, stats, alerts)]

SetMonitorState(m) ==
  /\ blockedIPs' = m.blockedIPs
  /\ timers' = m.timers
  /\ anomalies' = m.anomalies
  /\ arrivals' = m.arrivals

\* detectThreats that looks at the block list after detectAnomalies
detectThreatsGateLate(m, inp, t) ==
  LET threats == Scan(RequestData(inp))
      m1 == detectAnomalies(m, inp.ip \o inp.ua, inp, t)
  IN IF inp.ip \in m.blockedIPs
     THEN [m |-> [m1 EXCEPT !.j = logSecurityEvent(@, "blocked_ip_access", inp.ip, inp.ua, "",
                                                  "warning", t)],
           status |-> 403, reason |-> "blocked", threats |-> <<>>]
     ELSE IF Len(threats) > 0
          THEN [m |-> blockSuspiciousIP(
                        [m1 EXCEPT !.j = logSecurityAttack(@, "pattern_match", inp.ip, inp.ua, t)],
                        inp.ip, t),
                status |-> 403, reason |-> "threat", threats |-> threats]
          ELSE [m |-> m1, status |-> 0, reason |-> "", threats |-> threats]

\* detectThreats that turns away the request whose address detectAnomalies has just blocked
detectThreatsStopFlagged(m, inp, t) ==
  IF inp.ip \in m.blockedIPs
  THEN [m |-> [m EXCEPT !.j = logSecurityEvent(@, "blocked_ip_access", inp.ip, inp.ua, "",
                                                "warning", t)],
        status |-> 403, reason |-> "blocked", threats |-> <<>>]
  ELSE LET threats == Scan(RequestData(inp))
           m1 == detectAnomalies(m, inp.ip \o inp.ua, inp, t)
       IN IF Len(threats) > 0
          THEN [m |-> blockSuspiciousIP(
                        [m1 EXCEPT !.j = logSecurityAttack(@, "pattern_match", inp.ip, inp.ua, t)],
                        inp.ip, t),
                status |-> 403, reason |-> "threat", threats |-> threats]
          ELSE IF inp.ip \in m1.blockedIPs
               THEN [m |-> m1, status |-> 403, reason |-> "blocked", threats |-> threats]
               ELSE [m |-> m1, status |-> 0, reason |-> "", threats |-> threats]

\* detectThreats up to its response or its call of next()
detectThreats(m, inp, t) ==
  IF inp.ip \in m.blockedIPs
  THEN [m |-> [m EXCEPT !.j = logSecurityEvent(@, "blocked_ip_access", inp.ip, inp.ua, "",
                                                "warning", t)],
        status |-> 403, reason |-> "blocked", threats |-> <<>>]
  ELSE LET threats == Scan(RequestData(inp))
           m1 == detectAnomalies(m, inp.ip \o inp.ua, inp, t)
       IN IF Len(threats) > 0
          THEN [m |-> blockSuspiciousIP(
                        [m1 EXCEPT !.j = logSecurityAttack(@, "pattern_match", inp.ip, inp.ua, t)],
                        inp.ip, t),
                status |-> 403, reason |-> "threat", threats |-> threats]
          ELSE [m |-> m1, status |-> 0, reason |-> "", threats |-> threats]

\* a chain in which detectThreats calls next() after it has answered
DetectThreatsNoReturn(inp) ==
  /\ Quiescent
  /\ nreq' = nreq + 1
  /\ LET d == detectThreats(MonitorState, inp, now)
         rq == [Received(inp) EXCEPT !.threats = d.threats]
         out == EnterCheckLimits(rq, [LimiterState EXCEPT !.j = d.m.j], limiters,
                                 config, initialized, now)
     IN SetMonitorState(d.m) /\ Settle(out.rq) /\ SetLimiterState(out.q)
  /\ UNCHANGED <<now, config, limiters, initialized, adminVars, jwtVars, restVars>>

\* a request received by the application
DetectThreats(inp) ==
  /\ Quiescent
  /\ nreq' = nreq + 1
  /\ LET d == detectThreats(MonitorState, inp, now)
         rq == Received(inp)
     IN /\ SetMonitorState(d.m)
        /\ IF d.status = 403
           THEN /\ Settle([rq EXCEPT !.pc = "done", !.status = 403, !.reason = d.reason,
                                     !.threats = d.threats])
                /\ events' = d.m.j.events
                /\ stats' = d.m.j.stats
                /\ alerts' = d.m.j.alerts
                /\ UNCHANGED <<buckets, granted, tripped>>
           ELSE LET out == EnterCheckLimits(rq, [LimiterState EXCEPT !.j = d.m.j], limiters,
                                            config, initialized, now)
                IN Settle(out.rq) /\ SetLimiterState(out.q)
  /\ UNCHANGED <<now, config, limiters, initialized, adminVars, jwtVars, restVars>>

\* The callback of blockSuspiciousIP's setTimeout.  The timers of one key were set in the
\* same turn with the same delay: they are in one timer list with the same start, and the
\* runtime calls their callbacks one after the other when the list is due, with no request
\* handler between two of them.
Unblock(k) ==
  /\ Quiescent
  /\ k \in DOMAIN timers
  /\ k[2] <= now
  /\ blockedIPs' = blockedIPs \ {k[1]}
  /\ timers' = RunTimers(timers, k)
  /\ UNCHANGED <<now, limiterVars, cur, last, nreq, anomalies, arrivals, journalVars,
               jwtVars, restVars>>

Clean == Inp(IP1, UA1, NoUser, <<"/", "profile">>)

ScriptTag == <<"<", "script", ">", "alert(1)", "<", "/script", ">">>

Inputs ==
  { Inp(IP1, UA1, NoUser, LoginPath),
    With(Clean, <<>>, ScriptTag),
    With(Inp(IP2, UA1, NoUser, <<"/", "profile">>), <<"?q=", "%3c", "SCRIPT", "%3E">>, <<>>),
    Inp(IP2, UA1, NoUser, <<"/", "health", "/", "..", "\\", "x">>),
    With(Inp(IP2, <<"javascript:">>, NoUser, <<"/", "..", "/">>), <<>>, <<"select">>) }

Steps == {2000}

Next ==
  \/ \E inp \in Inputs : nreq < MaxChainReq /\ DetectThreats(inp)
  \/ ResumeLogin
  \/ \E d \in Steps \cup TimerGaps : Tick(d)
  \/ \E k \in DOMAIN timers : Unblock(k)

Spec == Init /\ [][Next]_vars

\* The event loop runs what is ready: the continuation of a request, a timer that is due; and
\* the clock reaches the time of every pending timer.
SpecFair ==
  /\ Spec
  /\ WF_vars(ResumeLogin)
  /\ WF_vars(\E d \in TimerGaps : Tick(d))
  /\ WF_vars(\E k \in DOMAIN timers : Unblock(k))

----------------------------------------------------------------------------
(* The flood scenario: one fingerprint sends many requests to an exempt path *)

FloodHorizon == 60000

FloodSteps == {59999, 60000}

\* two addresses whose fingerprints ip + userAgent are the same string
FloodInputs == { Inp(IP1, UA2, NoUser, <<"/", "health">>), Inp(IP2, UA1, NoUser, <<"/", "health">>) }

\* another fingerprint of the first address
OtherInput == Inp(IP1, UA1, NoUser, <<"/", "health">>)

Seen(clientId) == IF clientId \in DOMAIN arrivals THEN arrivals[clientId] ELSE <<>>

FloodTick(d) ==
  /\ d > 0
  /\ Advance(d, FloodHorizon)

NextFlood ==
  \/ \E inp \in FloodInputs : nreq < MaxFloodReq /\ DetectThreats(inp)
  \/ /\ nreq < MaxFloodReq
     /\ Len(Seen(OtherInput.ip \o OtherInput.ua)) < MaxOther
     /\ DetectThreats(OtherInput)
  \/ \E d \in FloodSteps \cup TimerGaps : FloodTick(d)
  \/ \E k \in DOMAIN timers : Unblock(k)

SpecFlood == Init /\ [][NextFlood]_vars

----------------------------------------------------------------------------
(* The audit journal on its own: the logger's methods called directly *)

\* the journal becomes j
Record(j) ==
  /\ Quiescent
  /\ events' = j.events
  /\ stats' = j.stats
  /\ alerts' = j.alerts
  /\ UNCHANGED <<now, limiterVars, monitorVars, cur, last, nreq, jwtVars, restVars>>

LogLoginAttempt(success) ==
  Record(logLoginAttempt(Journal(events, stats, alerts), IP1, UA1, success, now))

LogIPBlock == Record(logIPBlock(Journal(events, stats, alerts), IP1, now))

LogSuspiciousActivity ==
  Record(logSuspiciousActivity(Journal(events, stats, alerts), IP1, UA1, "probe", now))

LogRateLimitViolation ==
  Record(logRateLimitViolation(Journal(events, stats, alerts), IP1, UA1, now))

LogSecurityAttack ==
  Record(logSecurityAttack(Journal(events, stats, alerts), "pattern_match", IP1, UA1, now))

JournalHorizon == 300000

JournalSteps == {299999, 300000}

JournalTick(d) ==
  /\ d > 0
  /\ Advance(d, JournalHorizon)

Count(type) == Cardinality({i \in 1..Len(events) : events[i].type = type})

TypeCap(type) ==
  CASE type = "login_attempt" -> MaxLogins
    [] type = "ip_blocked" -> MaxBlocks
    [] type = "suspicious_activity" -> MaxSuspicious
    [] type = "security_attack" -> MaxAttacks
    [] OTHER -> MaxViolations

\* a behaviour logs events of one type, and at most MaxOtherType events of other types
MayLog(type) ==
  /\ Count(type) < TypeCap(type)
  /\ (events # <<>> /\ type # events[1].type) =>
        Cardinality({i \in 1..Len(events) : events[i].type # events[1].type}) < MaxOtherType

NextJournal ==
  \/ \E success \in BOOLEAN : MayLog("login_attempt") /\ LogLoginAttempt(success)
  \/ MayLog("ip_blocked") /\ LogIPBlock
  \/ MayLog("suspicious_activity") /\ LogSuspiciousActivity
  \/ MayLog("rate_limit_violation") /\ LogRateLimitViolation
  \/ MayLog("security_attack") /\ LogSecurityAttack
  \/ \E d \in JournalSteps : JournalTick(d)

SpecJournal == Init /\ [][NextJournal]_vars

\* the journal after n login attempts at time 0
RECURSIVE Logins(_, _, _)
Logins(j, n, success) ==
  IF n = 0 THEN j
  ELSE IF n = 1 THEN logLoginAttempt(j, IP1, UA1, success, 0)
  ELSE LET half == Logins(j, n \div 2, success)
       IN IF half.stats.totalRequests >= 0
          THEN Logins(half, n - (n \div 2), success)
          ELSE half

\* failed login attempts at the head of the backlog
BacklogFails == {0, 5}

InitFull ==
  /\ InitMonitor
  /\ InitLimiter
  /\ InitJwt
  /\ InitRest
  /\ \E k \in BacklogFails :
        LET j == Logins(Logins(EmptyJournal, k, FALSE), BacklogLen - k, TRUE)
        IN events = j.events /\ stats = j.stats /\ alerts = j.alerts

MayAdd == stats.totalRequests < BacklogLen + MaxExtra

NextFull ==
  \/ \E success \in BOOLEAN : MayAdd /\ LogLoginAttempt(success)
  \/ MayAdd /\ LogIPBlock
  \/ MayAdd /\ LogSecurityAttack
  \/ \E d \in JournalSteps : JournalTick(d)

SpecFull == InitFull /\ [][NextFull]_vars

\* the key manager on its own
SpecJwt == Init /\ [][NextJwt]_vars

----------------------------------------------------------------------------
(* The report on a journal that holds attacks from several addresses *)

ReportIPs ==
  << <<"10.0.0.1">>, <<"10.0.0.2">>, <<"10.0.0.3">>, <<"10.0.0.4">>, <<"10.0.0.5">>,
     <<"10.0.0.6">> >>

AttackTypes == <<"pattern_match", "test_attack", "sql_injection", "xss", "csrf", "brute_force">>

\* the journal j after n attacks from the i-th address, each of another type
RECURSIVE AttacksOf(_, _, _)
AttacksOf(j, i, n) ==
  IF n = 0 THEN j
  ELSE LET before == AttacksOf(j, i, n - 1)
       IN logSecurityAttack(before, AttackTypes[((i + n - 2) % Len(AttackTypes)) + 1],
                            ReportIPs[i], UA1, 0)

\* the journal after a successful login from the last address, a suspicious activity of the
\* first one, and c[i] attacks from each of the first m addresses i of order
RECURSIVE JournalOf(_, _, _)
JournalOf(c, order, m) ==
  IF m = 0
  THEN logSuspiciousActivity(
         logLoginAttempt(EmptyJournal, ReportIPs[Len(ReportIPs)], UA1, TRUE, 0),
         ReportIPs[1], UA1, "probe", 0)
  ELSE LET before == JournalOf(c, order, m - 1)
       IN AttacksOf(before, order[m], c[order[m]])

InitReport ==
  /\ InitMonitor
  /\ InitLimiter
  /\ InitJwt
  /\ InitRest
  /\ \E c \in [1..Len(ReportIPs) -> 0..MaxCount] : \E order \in { <<1, 2, 3, 4, 5, 6>>, <<6, 5, 4, 3, 2, 1>> } :
        LET j == JournalOf(c, order, Len(order))
        IN events = j.events /\ stats = j.stats /\ alerts = j.alerts

GenerateSecurityReport ==
  /\ report' = generateSecurityReport(Journal(events, stats, alerts))
  /\ UNCHANGED <<now, limiterVars, monitorVars, journalVars, cur, last, nreq, jwtVars,
                 tokenStore, refreshed>>

NextReport == GenerateSecurityReport

SpecReport == InitReport /\ [][NextReport]_vars

----------------------------------------------------------------------------
(* RefreshTokenManager *)

\* The 30 days of a refresh token, 30 * 24 * 60 * 60 * 1000 ms, do not fit the integers of
\* the model checker: in this part the clock counts seconds, and every instant at which a
\* call is made is a whole second.
RefreshLife == 2592000

\* generateRefreshToken(userId); token stands for the 64 random bytes, taken to differ from
\* every token in the store
generateRefreshToken(store, userId, token, t) ==
  Put(store, token, [userId |-> userId, expires |-> t + RefreshLife, used |-> FALSE])

\* validateRefreshToken that does not mark the token as used
validateRefreshTokenReusable(store, refreshToken, t) ==
  IF \/ refreshToken \notin DOMAIN store
     \/ store[refreshToken].used
     \/ store[refreshToken].expires < t
  THEN [store |-> store, ok |-> FALSE, userId |-> ""]
  ELSE [store |-> store, ok |-> TRUE, userId |-> store[refreshToken].userId]

\* validateRefreshToken(refreshToken): ok is FALSE when it throws
validateRefreshToken(store, refreshToken, t) ==
  IF \/ refreshToken \notin DOMAIN store
     \/ store[refreshToken].used
     \/ store[refreshToken].expires < t
  THEN [store |-> store, ok |-> FALSE, userId |-> ""]
  ELSE [store |-> [store EXCEPT ![refreshToken].used = TRUE],
        ok |-> TRUE, userId |-> store[refreshToken].userId]

refreshRest == <<limiterVars, monitorVars, journalVars, cur, last, nreq, jwtVars, report>>

GenerateRefreshToken(userId) ==
  /\ Cardinality(DOMAIN tokenStore) < MaxRefreshTokens
  /\ LET token == Cardinality(DOMAIN tokenStore) + 1
     IN /\ tokenStore' = generateRefreshToken(tokenStore, userId, token, now)
        /\ refreshed' = [refreshed EXCEPT !.op = "generate", !.token = token,
                                          !.userId = userId, !.ok = TRUE,
                                          !.redeemed = Put(@, token, 0)]
  /\ UNCHANGED <<now, refreshRest>>

\* a call with a token of the store or with one that was never generated
ValidateRefreshToken(refreshToken) ==
  /\ LET v == validateRefreshToken(tokenStore, refreshToken, now)
     IN /\ tokenStore' = v.store
        /\ refreshed' = [refreshed EXCEPT
                           !.op = "validate", !.token = refreshToken,
                           !.userId = v.userId, !.ok = v.ok,
                           !.redeemed = IF v.ok THEN [@ EXCEPT ![refreshToken] = @ + 1]
                                        ELSE @]
  /\ UNCHANGED <<now, refreshRest>>

RefreshInstants == {60, RefreshLife, RefreshLife + 1, RefreshLife + 60, RefreshLife + 61}

RefreshTick(t) ==
  /\ t > now
  /\ now' = t
  /\ UNCHANGED <<refreshRest, tokenStore, refreshed>>

UserIds == {"u1", "u2"}

NextRefresh ==
  \/ \E userId \in UserIds : GenerateRefreshToken(userId)
  \/ \E refreshToken \in 1..(MaxRefreshTokens + 1) : ValidateRefreshToken(refreshToken)
  \/ \E t \in RefreshInstants : RefreshTick(t)

SpecRefresh == Init /\ [][NextRefresh]_vars

----------------------------------------------------------------------------
(* Properties of the limiter *)

\* a request was received in this step
Arrives == nreq' = nreq + 1

\* the request that this step handled: it still waits at an await, or it has been answered
Handled == IF cur # Idle THEN cur ELSE last

\* this step consumed on scope sc (the clock stands still while a request is handled)
Consumes(sc) == now' = now /\ buckets'[sc] # buckets[sc]

\* the consumptions already counted in the live record of a key, 0 when there is none
Used(sc, k) ==
  IF k \in DOMAIN buckets[sc] /\ buckets[sc][k].expiresAt > now THEN buckets[sc][k].value ELSE 0

RejectedAt(rq, sc) == rq.status = 429 /\ rq.reason = sc

C1_Step(sc) ==
  LET rq == Handled'
      k == ScopeKey(rq, sc)
      used == Used(sc, k)
      after == buckets'[sc][k]
  IN Consumes(sc) =>
       /\ used < config[sc].points =>
            /\ ~RejectedAt(rq, sc)
            /\ after.value = used + 1
            /\ used = 0 => after.expiresAt = now + config[sc].duration * 1000
       /\ used = config[sc].points =>
            /\ RejectedAt(rq, sc)
            /\ rq.retryAfter >= 1
            /\ rq.retryAfter = config[sc].blockDuration
            /\ after.expiresAt = now + config[sc].blockDuration * 1000
       /\ used > config[sc].points =>
            /\ RejectedAt(rq, sc)
            /\ rq.retryAfter >= 1
            /\ after.expiresAt = buckets[sc][k].expiresAt

\* C1: in every scope and for every key, a consumption is allowed while fewer than `points`
\* consumptions were made in the key's live window (a key without a live record has made none
\* and starts a window of `duration`); the consumption after the points-th is rejected with
\* retryAfter = blockDuration >= 1 and blocks the key for blockDuration; every consumption
\* during the block is rejected with retryAfter >= 1 and does not extend it; the first one
\* after the block finds no live record and is allowed against a full bucket.
C1 == [][\A sc \in ScopeSet : C1_Step(sc)]_vars

\* a key of the login scope that was blocked has been allowed again, against a full bucket
C1_Witness ==
  /\ last.status = 200
  /\ last.consumed = <<"ip", "login">>
  /\ ScopeKey(last, "login") \in tripped.login
  /\ ScopeKey(last, "login") \in DOMAIN granted.login
  /\ granted.login[ScopeKey(last, "login")] = 1
  /\ cur = Idle

C2_Inv ==
  \A sc \in ScopeSet : \A k \in DOMAIN buckets[sc] :
     /\ granted[sc][k] \in 0..config[sc].points
     /\ config[sc].points - granted[sc][k] \in 0..config[sc].points

C2_Step(sc) ==
  LET rq == Handled'
      k == ScopeKey(rq, sc)
  IN (Consumes(sc) /\ Used(sc, k) > config[sc].points) => RejectedAt(rq, sc)

IsPrefix(a, b) == Len(a) <= Len(b) /\ SubSeq(b, 1, Len(a)) = a

Later(sc) ==
  CASE sc = "ip" -> {"user", "login"}
    [] sc = "user" -> {"login"}
    [] OTHER -> {}

C3_Step ==
  \A sc \in ScopeSet :
     (now' = now /\ cur' = Idle /\ (Arrives \/ cur # Idle) /\ RejectedAt(last', sc)) =>
        /\ \A x \in Later(sc) : buckets'[x] = buckets[x]
        /\ last'.consumed[Len(last'.consumed)] = sc

\* C3: a request consumes in the order ip, user, login; the step that rejects it on a scope
\* leaves the buckets of the later scopes unchanged and ends the request, so a rejected
\* request has consumed on no scope after the one that rejected it.
C3 ==
  /\ [](\A rq \in {cur, last} : \E all \in {<<"ip", "user", "login">>, <<"ip", "user">>,
                                          <<"ip", "login">>, <<"ip">>} :
          IsPrefix(rq.consumed, all))
  /\ [][C3_Step]_vars

\* a request with a user id for the login path was rejected on the user scope
C3_Witness ==
  /\ RejectedAt(last, "user")
  /\ IsLogin(last)
  /\ last.consumed = <<"ip", "user">>
  /\ cur = Idle

OnExemptList(path) == \E p \in config.exemptPaths : path = p \/ StartsWith(path, p)

C4_Step ==
  LET rq == Handled'
      k == IpKey(rq)
  IN /\ (Arrives /\ ~OnExemptList(rq.path)) =>
          /\ k \in DOMAIN buckets'.ip
          /\ buckets'.ip[k].value = Used("ip", k) + 1
          /\ \A x \in DOMAIN buckets'.ip : x # k =>
                x \in DOMAIN buckets.ip /\ buckets'.ip[x] = buckets.ip[x]
     /\ (now' = now /\ ~Arrives) => buckets'.ip = buckets.ip
     /\ Consumes("user") => rq.userId # NoUser
     /\ Consumes("login") => rq.path = LoginPath

\* C4: a request that is not exempt consumes exactly one point from the ip bucket of its
\* address; a step consumes on the user scope only for a request with a user id, and on the
\* login scope only for a request whose path is the login endpoint /login.
C4 == [][C4_Step]_vars

C5_Step ==
  (Arrives /\ OnExemptList(Handled'.path)) =>
     /\ cur' = Idle
     /\ last'.status = 200
     /\ last'.consumed = <<>>
     /\ buckets' = buckets
     /\ granted' = granted

\* C5: a request whose path is on the exemption list, or starts with an entry of it, is let
\* through by checkLimits whatever the buckets hold, and it changes no bucket.
C5 == [][C5_Step]_vars

\* a request under an exempt prefix was let through while the ip bucket of its address is blocked
C5_Witness ==
  /\ last.status = 200
  /\ last.consumed = <<>>
  /\ last.path \notin config.exemptPaths
  /\ OnExemptList(last.path)
  /\ IpKey(last) \in DOMAIN buckets.ip
  /\ buckets.ip[IpKey(last)].value > config.ip.points
  /\ buckets.ip[IpKey(last)].expiresAt > now

----------------------------------------------------------------------------
(* Properties of the monitor *)

\* the positions of the events that this step added to the journal
NewEvents == (Len(events) + 1)..Len(events')

BlockTimes(ip) ==
  {getTime(events[i].timestamp) : i \in {x \in 1..Len(events) :
                                  events[x].type = "ip_blocked" /\ events[x].ip = ip}}

LastBlock(ip) == CHOOSE t \in BlockTimes(ip) : \A u \in BlockTimes(ip) : u <= t

C6_Inv ==
  \A ip \in blockedIPs :
     /\ BlockTimes(ip) # {}
     /\ <<ip, LastBlock(ip) + BlockMs>> \in DOMAIN timers
     /\ now <= LastBlock(ip) + BlockMs

C6_Step == \A i \in NewEvents : events'[i].type = "ip_blocked" => events'[i].ip \in blockedIPs'

\* C6: an address is in the blocked set at the end of the step that blocked it; while it is
\* blocked a timer due one block duration after its last block is pending and the clock has
\* not passed that time; and every blocked address is eventually out of the blocked set.
C6 ==
  /\ []C6_Inv
  /\ [][C6_Step]_vars
  /\ \A ip \in {IP1, IP2} : (ip \in blockedIPs) ~> (ip \notin blockedIPs)

\* an address that was blocked is no longer blocked one block duration later
C6_Witness ==
  \E ip \in {IP1, IP2} :
     /\ BlockTimes(ip) # {}
     /\ ip \notin blockedIPs
     /\ now = LastBlock(ip) + BlockMs
     /\ \A k \in DOMAIN timers : k[1] # ip

C7_Step ==
  (Arrives /\ Handled'.ip \in blockedIPs) =>
     /\ cur' = Idle
     /\ last'.status = 403
     /\ last'.reason = "blocked"
     /\ last'.consumed = <<>>
     /\ blockedIPs' = blockedIPs
     /\ anomalies' = anomalies
     /\ buckets' = buckets

\* C7: a request from an address that is blocked is answered 403 and changes neither the
\* blocked set nor any activity window nor any bucket.
C7 == [][C7_Step]_vars

\* a blocked address was turned away while a bucket and an activity window hold entries
C7_Witness ==
  /\ last.status = 403
  /\ last.reason = "blocked"
  /\ last.ip \in blockedIPs
  /\ DOMAIN buckets.ip # {}
  /\ last.ip \o last.ua \in DOMAIN anomalies

C8_Step ==
  (Arrives /\ Handled'.ip \notin blockedIPs /\ Len(Handled'.threats) > 0) =>
     /\ cur' = Idle
     /\ last'.status = 403
     /\ last'.consumed = <<>>
     /\ buckets' = buckets
     /\ granted' = granted
     /\ last'.ip \in blockedIPs'

\* C8: a request from an address that is not blocked and whose data match a threat pattern is
\* answered 403 whatever the buckets hold, changes no bucket, and its address is blocked when
\* the answer is given.
C8 == [][C8_Step]_vars

\* a pattern match was rejected while the login bucket of the same address is blocked
C8_Witness ==
  /\ last.status = 403
  /\ last.reason = "threat"
  /\ 0 \in {last.threats[i] : i \in 1..Len(last.threats)}
  /\ last.ip \in blockedIPs
  /\ ScopeKey(last, "login") \in DOMAIN buckets.login
  /\ buckets.login[ScopeKey(last, "login")].value > config.login.points

\* the requests of a fingerprint that reached detectAnomalies less than 60 seconds ago
InSpan(clientId) ==
  Cardinality({i \in 1..Len(arrivals'[clientId]) : now - arrivals'[clientId][i] < 60000})

FlaggedAs(activity) ==
  \E i \in NewEvents : events'[i].type = "suspicious_activity" /\ events'[i].detail = activity

C9_Step ==
  LET rq == Handled'
  IN Arrives =>
       IF rq.ip \in blockedIPs
       THEN last'.status = 403 /\ last'.reason = "blocked" /\ ~FlaggedAs("potential_ddos")
       ELSE /\ FlaggedAs("potential_ddos") <=> InSpan(rq.ip \o rq.ua) > 50
            /\ InSpan(rq.ip \o rq.ua) > 50 => rq.ip \in blockedIPs'

\* C9: the n-th request of one fingerprint (ip + user agent) to reach detectAnomalies within
\* 60 seconds is flagged as a flood exactly when n > 50, its address is then blocked, and a
\* request from a blocked address is rejected as blocked.
C9 == [][C9_Step]_vars

\* the 51st request was flagged and the request after it was rejected as blocked
C9_Witness ==
  /\ \E cid \in DOMAIN anomalies : Len(anomalies[cid]) = 51
  /\ \E i \in 1..Len(events) : events[i].detail = "potential_ddos"
  /\ last.status = 403
  /\ last.reason = "blocked"

C10_Step ==
  LET rq == Handled'
  IN (Arrives /\ rq.ip \notin blockedIPs
        /\ (Includes(rq.path, <<"..", "/">>) \/ Includes(rq.path, <<"..", "\\">>))) =>
       /\ FlaggedAs("path_traversal")
       /\ rq.ip \in blockedIPs'

\* C10: a request from an address that is not blocked and whose path contains ../ or ..\ is
\* flagged as path traversal and its address is blocked, whatever its activity window holds.
C10 == [][C10_Step]_vars

\* the first request of a fingerprint had ..\ in its path, was flagged and passed to the limiter
C10_Witness ==
  /\ Includes(last.path, <<"..", "\\">>)
  /\ last.status = 200
  /\ Len(arrivals[last.ip \o last.ua]) = 1
  /\ last.ip \in blockedIPs
  /\ \E i \in 1..Len(events) : events[i].detail = "path_traversal"

----------------------------------------------------------------------------
(* Properties of the audit journal *)

\* one logSecurityEvent completed in this step
Logged == stats'.totalRequests = stats.totalRequests + 1

C11_Step ==
  Logged =>
    LET e == events'[Len(events')]
    IN /\ getTime(e.timestamp) = now
       /\ events' = IF Len(events) = 1000 THEN Append(Tail(events), e) ELSE Append(events, e)

\* C11: the journal never holds more than 1000 events; a completed logSecurityEvent adds the
\* new event at the end and keeps the others in order, and when the journal held 1000 events
\* it removes exactly the oldest one.
C11 == [](Len(events) <= 1000) /\ [][C11_Step]_vars

\* the journal is full, its oldest event has been removed and an attack is its last event
C11_Witness ==
  /\ Len(events) = 1000
  /\ stats.totalRequests > 1000
  /\ events[1000].type = "security_attack"

\* the events of a severity that are less than 5 minutes old
Fresh(severity) ==
  Cardinality({i \in 1..Len(events) :
                 events[i].severity = severity /\ now - getTime(events[i].timestamp) < 300000})

Tier(score) ==
  IF score >= 20 THEN "HIGH"
  ELSE IF score >= 10 THEN "MEDIUM"
  ELSE IF score >= 5 THEN "LOW"
  ELSE "MINIMAL"

RiskLevel == getSecurityStats(Journal(events, stats, alerts), now).riskLevel

\* C12: the risk level of getSecurityStats is the tier of 3 x (error events less than 5
\* minutes old) + (warning events less than 5 minutes old); info events and events 5 minutes
\* old or older count for nothing.
C12 == RiskLevel = Tier(3 * Fresh("error") + Fresh("warning"))

\* the level is MEDIUM while the journal holds an error that is 5 minutes old and a fresh
\* info event
C12_Witness ==
  /\ RiskLevel = "MEDIUM"
  /\ \E i \in 1..Len(events) :
        events[i].severity = "error" /\ now - getTime(events[i].timestamp) = 300000
  /\ \E i \in 1..Len(events) :
        events[i].severity = "info" /\ now - getTime(events[i].timestamp) < 300000

Rank(level) ==
  CASE level = "MINIMAL" -> 0
    [] level = "LOW" -> 1
    [] level = "MEDIUM" -> 2
    [] level = "HIGH" -> 3

\* C13: as long as the clock does not move (so no event ages out of the 5-minute window), no
\* step lowers the risk level: the level goes down only when time passes.
C13 == [][now' = now => Rank(RiskLevel') >= Rank(RiskLevel)]_vars

AlertTypes == {"login_attempt", "ip_blocked", "suspicious_activity"}

AlertOf(type) ==
  CASE type = "login_attempt" -> "MULTIPLE_FAILED_LOGINS"
    [] type = "ip_blocked" -> "MULTIPLE_IP_BLOCKS"
    [] type = "suspicious_activity" -> "HIGH_SUSPICIOUS_ACTIVITY"

AlertAt(type) ==
  CASE type = "login_attempt" -> 5
    [] type = "ip_blocked" -> 3
    [] type = "suspicious_activity" -> 10

\* the events of a type that are less than 5 minutes old
FreshOf(evs, type) ==
  Cardinality({i \in 1..Len(evs) :
                 evs[i].type = type /\ now - getTime(evs[i].timestamp) < 300000})

C14_Inv ==
  \A type \in AlertTypes :
     FreshOf(events, type) = Count(type) =>
        /\ Count(type) < AlertAt(type) => alerts[AlertOf(type)] = 0
        /\ Count(type) = AlertAt(type) => alerts[AlertOf(type)] = 1

C14_Step ==
  Logged =>
    LET type == events'[Len(events')].type
    IN \A a \in DOMAIN alerts :
          alerts'[a] = IF /\ type \in AlertTypes
                          /\ a = AlertOf(type)
                          /\ FreshOf(events', type) >= AlertAt(type)
                       THEN alerts[a] + 1
                       ELSE alerts[a]

\* C14: an insertion raises an alert exactly when it is a login_attempt, ip_blocked or
\* suspicious_activity event and it brings the number of events of its type less than 5
\* minutes old to 5, 3 or 10 or more; so, with all events of a type inside one window, no alert
\* of that type has been raised before the 5th (3rd, 10th) insertion and exactly one has been
\* raised once it is done.
C14 == []C14_Inv /\ [][C14_Step]_vars

\* five login attempts and one other event inside one window, and one alert in total
C14_Witness ==
  /\ Count("login_attempt") = 5
  /\ FreshOf(events, "login_attempt") = 5
  /\ Len(events) = 6
  /\ alerts.MULTIPLE_FAILED_LOGINS = 1
  /\ alerts.MULTIPLE_IP_BLOCKS = 0

----------------------------------------------------------------------------
(* Properties of the key manager *)

\* this step is a call of signToken, of verifyToken
IsSign == verdict' # verdict /\ verdict'.op = "sign"
IsVerify == verdict' # verdict /\ verdict'.op = "verify"

Revoked(tok) == tok.payload.jti \in blacklistedTokens

Expired(tok) == now \div 1000 >= tok.payload.exp

C15_Step ==
  /\ IsSign => verdict'.ok
  /\ LET tok == verdict'.token
     IN (/\ IsVerify
         /\ tok \in issued
         /\ tok.kid = currentKeyId
         /\ ~Revoked(tok)
         /\ now - tok.at < 6 * 60 * 60 * 1000) =>
           /\ verdict'.ok
           /\ \A x \in DOMAIN tok.given :
                 x \in DOMAIN verdict'.payload /\ verdict'.payload[x] = tok.given[x]

\* C15: signToken returns a token for every claims object, from the construction of the
\* manager on; and verifyToken of a token of this manager succeeds and returns the claims it
\* was signed for, when no rotation happened since it was signed, its id is not revoked and
\* less than 6 hours have passed.
C15 == [][C15_Step]_vars

C16_Step ==
  /\ blacklistedTokens \subseteq blacklistedTokens'
  /\ (IsVerify /\ Revoked(verdict'.token)) => ~verdict'.ok

\* C16: no step removes an id from the revocation set, and verifyToken rejects every token
\* whose id is in the set.
C16 == [][C16_Step]_vars

\* after a rotation, a token of this manager with a matching signature and a live expiry was
\* rejected as revoked
C16_Witness ==
  /\ verdict.op = "verify"
  /\ ~verdict.ok
  /\ verdict.reason = "Token revogado"
  /\ verdict.token \in issued
  /\ verdict.token.sig = Get(keys, verdict.token.kid)
  /\ ~Expired(verdict.token)
  /\ verdict.token.kid # currentKeyId

C17_Step ==
  LET tok == verdict'.token
  IN (/\ IsVerify
      /\ tok \in issued
      /\ tok.kid = retired.id
      /\ tok.sig = retired.secret
      /\ ~Revoked(tok)
      /\ ~Expired(tok)) => verdict'.ok

\* C17: after a rotation, verifyToken accepts a token signed under the key (id and secret) that
\* was current just before that rotation, unless the token is revoked or past its expiry.
C17 == [][C17_Step]_vars

\* a token signed with the loaded primary secret under the key current before the latest
\* rotation was accepted after that rotation
C17_Witness ==
  /\ verdict.op = "verify"
  /\ verdict.ok
  /\ verdict.token \in issued
  /\ verdict.token.kid = retired.id
  /\ verdict.token.kid # currentKeyId
  /\ verdict.token.sig = "primary-secret"

C18_Step ==
  LET tok == verdict'.token
  IN (/\ IsVerify
      /\ tok \in issued
      /\ tok.kid # currentKeyId
      /\ tok.kid # retired.id) => ~verdict'.ok

\* C18: verifyToken rejects a token of this manager that was signed under a key which is
\* neither the current one nor the one that was current before the latest rotation (a token
\* signed two or more rotations ago).
C18 == [][C18_Step]_vars

\* C19: from construction on, currentKeyId names a key that is in the key map with a defined
\* secret.
C19 ==
  /\ currentKeyId \in DOMAIN keys
  /\ keys[currentKeyId] # Undefined

UnknownKey(tok) == Get(keys, tok.kid) = Undefined

BadSignature(tok) == ~UnknownKey(tok) /\ tok.sig # keys[tok.kid]

C20_Step ==
  LET tok == verdict'.token
      reason == verdict'.reason
  IN IsVerify =>
       /\ reason = "Chave não encontrada" => UnknownKey(tok)
       /\ reason = "Token revogado" => Revoked(tok)
       /\ reason = "jwt expired" => Expired(tok)
       /\ reason = "invalid signature" => BadSignature(tok)
       /\ (UnknownKey(tok) /\ ~Revoked(tok)) => reason = "Chave não encontrada"
       /\ Revoked(tok) => reason = "Token revogado"
       /\ (BadSignature(tok) /\ ~Revoked(tok)) => reason = "invalid signature"
       /\ (Expired(tok) /\ ~Revoked(tok) /\ ~UnknownKey(tok) /\ ~BadSignature(tok)) =>
             reason = "jwt expired"

\* C20: verifyToken reports each cause of rejection under its own reason: an unknown key id
\* as key not found, a revoked id as revoked, a passed expiry as expired, a signature that
\* does not match its key as bad signature; and no reason is given for another cause.
C20 == [][C20_Step]_vars

----------------------------------------------------------------------------
(* Properties of the rejections and of what the journal holds *)

\* a request was answered in this step
Answered == cur' = Idle /\ (Arrives \/ cur # Idle)

\* the type of the event that the journal gets for a rejection
RejectionEvent(rq) ==
  CASE rq.status = 429 -> "rate_limit_violation"
    [] rq.reason = "blocked" -> "blocked_ip_access"
    [] OTHER -> "security_attack"

C21_Step ==
  (Answered /\ last'.status \in {403, 429}) =>
     /\ stats'.totalRequests > stats.totalRequests
     /\ \E i \in NewEvents :
           /\ events'[i].type = RejectionEvent(last')
           /\ events'[i].ip = IpKey(last')
           /\ getTime(events'[i].timestamp) = now
     /\ last'.reason \in {"ip", "user", "login", "blocked", "threat"}
     /\ last'.status = 429 => last'.retryAfter >= 1

\* C21: the step that answers a request with 429 (quota) or 403 (blocked address, pattern
\* match) appends to the journal an event of the rejection's kind for the request's address,
\* and the answer is a response with a status and a reason.
C21 == [][C21_Step]_vars

\* a request was rejected by the quota limiter after another one was rejected for a pattern
C21_Witness ==
  /\ cur = Idle
  /\ last.status = 429
  /\ events # <<>>
  /\ events[Len(events)].type = "rate_limit_violation"
  /\ \E i \in 1..Len(events) : events[i].type = "security_attack"

\* C27: a revokeToken call that adds an id to the revocation set appends an event to the
\* security journal.
C27 == [][blacklistedTokens' # blacklistedTokens => Len(events') > Len(events)]_vars

EventTypes ==
  {"login_attempt", "ip_blocked", "suspicious_activity", "rate_limit_violation",
   "security_attack"}

\* C29: every event in the journal has one of the five event types.
C29 == \A i \in 1..Len(events) : events[i].type \in EventTypes

C30_Step ==
  LET rq == Handled'
      clientId == rq.ip \o rq.ua
  IN (Arrives /\ rq.ip \notin blockedIPs) =>
       /\ clientId \in DOMAIN anomalies'
       /\ anomalies'[clientId] # <<>>
       /\ anomalies'[clientId][Len(anomalies'[clientId])] = now
       /\ \A i \in 1..Len(anomalies'[clientId]) : now - anomalies'[clientId][i] < 60000
       /\ anomalies'[clientId] =
            SelectSeq(arrivals'[clientId], LAMBDA ts : now - ts < 60000)

\* C30: after each detectAnomalies call for a fingerprint, the stored window of the fingerprint
\* is, in arrival order, the arrivals of the fingerprint that are less than 60 seconds old,
\* the current request last; an arrival that is 60 seconds old or older is not in it.
C30 == [][C30_Step]_vars

\* an arrival exactly 60 seconds old was dropped from the window of its fingerprint
C30_Witness ==
  \E clientId \in DOMAIN anomalies :
     /\ Len(anomalies[clientId]) < Len(arrivals[clientId])
     /\ anomalies[clientId][Len(anomalies[clientId])] = now
     /\ \E i \in 1..Len(arrivals[clientId]) : now - arrivals[clientId][i] = 60000

----------------------------------------------------------------------------
(* Properties of the limiter's administration *)

\* this step is a call of the method op
CallOf(op) == admin' # admin /\ admin'.op = op

\* C22: when init() is called while the shared store is reachable, then after the call all
\* three scopes consume on the shared store.
C22 ==
  [][(CallOf("init") /\ admin'.arg.store = "client") =>
        \A sc \in ScopeSet : limiters'[sc].store = "redis"]_vars

\* C23: all consumptions of one request are made on limiters of the same set.
C23 ==
  \A rq \in {cur, last} : \A i, k \in 1..Len(rq.sets) : rq.sets[i] = rq.sets[k]

\* n consumptions in a row on key are all allowed
RECURSIVE AllowedRun(_, _, _, _, _)
AllowedRun(lim, st, key, t, n) ==
  IF n = 0 THEN TRUE
  ELSE LET c == Consume(lim, st, key, t)
       IN c.ok /\ AllowedRun(lim, Put(st, key, c.rec), key, t, n - 1)

C24_Step ==
  CallOf("reset") =>
     \A sc \in ScopeSet : \A key \in (DOMAIN buckets[sc]) \cup {<<"other">>} :
        AllowedRun(limiters'[sc], buckets'[sc], key, now, config'[sc].points)

\* C24: after reset(), whether the deletion of the remote keys succeeded or not, every key of
\* every scope, the exhausted and the blocked ones included, is allowed its next `points`
\* consumptions.
C24 == [][C24_Step]_vars

\* a login key that was blocked was allowed again after a reset, before any time had passed
C24_Witness ==
  /\ admin.op = "reset"
  /\ now = 0
  /\ cur = Idle
  /\ last.status = 200
  /\ last.consumed = <<"ip", "login">>
  /\ last.sets = <<admin.set, admin.set>>
  /\ ScopeKey(last, "login") \in tripped.login

C25_Step ==
  CallOf("updateConfig") =>
     IF config.environment = "development"
     THEN /\ admin'.ok
          /\ \A f \in DOMAIN config :
                config'[f] = IF f \in DOMAIN admin'.arg THEN admin'.arg[f] ELSE config[f]
     ELSE /\ ~admin'.ok
          /\ config' = config
          /\ limiters' = limiters
          /\ buckets' = buckets
          /\ generation' = generation

\* C25: updateConfig(partial) returns true and merges partial into the configuration when the
\* environment of the configuration is development; otherwise it returns false and leaves the
\* configuration, the limiter set and every bucket as they were.
C25 == [][C25_Step]_vars

\* outside development an update was refused while buckets held consumptions
C25_Witness ==
  /\ admin.op = "updateConfig"
  /\ ~admin.ok
  /\ DOMAIN admin.arg = {"login"}
  /\ config = getActiveConfigOf(FALSE)
  /\ admin.nreq > 0
  /\ buckets.ip # <<>>

\* this step consumed on scope sc of the limiter set in use
ConsumesOn(sc) ==
  /\ Arrives \/ cur # Idle
  /\ generation' = generation
  /\ buckets'[sc] # buckets[sc]

C28_Step ==
  /\ (CallOf("init") /\ admin'.arg.store # "client") =>
        /\ admin'.ok
        /\ initialized'
        /\ redisClient' = Null
        /\ limiters' = limiters
        /\ buckets' = buckets
        /\ \A sc \in ScopeSet : limiters'[sc].store = "memory"
  /\ Arrives =>
        LET k == IpKey(Handled')
        IN k \in DOMAIN buckets'.ip /\ buckets'.ip[k].value = Used("ip", k) + 1
  /\ \A sc \in ScopeSet :
        (ConsumesOn(sc) /\ Used(sc, ScopeKey(Handled', sc)) >= config[sc].points) =>
           RejectedAt(Handled', sc)

\* C28: an init() that finds the shared store unreachable (initRedis gives null or throws)
\* returns without an exception and leaves the limiters on their local buckets; and every
\* request still consumes on the local buckets and is rejected when its key has used up its
\* points.
C28 == [][C28_Step]_vars

\* after an init() whose store connection threw, a request was rejected by the local limiter
C28_Witness ==
  /\ admin.op = "init"
  /\ admin.arg.store = "throws"
  /\ admin.nreq < nreq
  /\ generation = 1
  /\ cur = Idle
  /\ last.status = 429

----------------------------------------------------------------------------
(* Properties of the construction *)

\* the nine values of the active configuration are greater than zero
AllPositive(cfg) == \A sc \in ScopeSet : \A f \in Fields : cfg[sc][f] > 0

C26_Step ==
  CallOf("constructor") =>
     LET cfg == getActiveConfigFrom(env)
     IN /\ admin'.ok <=> AllPositive(cfg)
        /\ ~admin'.ok => (~initialized' /\ limiters' = <<>> /\ generation' = 0)
        /\ admin'.ok =>
              /\ initialized'
              /\ \A sc \in ScopeSet : \A f \in Fields : limiters'[sc][f] = cfg[sc][f]

\* C26: the constructor throws, and no limiter exists, when one of points, duration and
\* blockDuration of one of the three scopes of the active configuration is not greater than
\* zero; it succeeds, with limiters of these values, when all nine are positive.
C26 == [][C26_Step]_vars

\* the construction failed on login points set to 0.5, which parseInt reads as 0
C26_Witness ==
  /\ admin.op = "constructor"
  /\ ~admin.ok
  /\ ~initialized
  /\ env.values[<<"login", "points">>] = <<"0", ".", "5">>
  /\ admin.arg.errors = {<<"login", "points">>}

----------------------------------------------------------------------------
(* Properties of what a request leaves behind *)

\* the scopes a request consumed on before the scope sc
Earlier(rq, sc) == {rq.consumed[i] : i \in 1..Len(rq.consumed)} \ {sc}

C33_Step ==
  LET rq == Handled'
  IN /\ (Arrives /\ cur'.pc \in {"user", "login"}) =>
          buckets'.ip[IpKey(rq)].value = Used("ip", IpKey(rq)) + 1
     /\ (cur.pc = "user" /\ cur'.pc = "login") =>
          /\ buckets'.user[ScopeKey(rq, "user")].value = Used("user", ScopeKey(rq, "user")) + 1
          /\ buckets'.ip = buckets.ip
     /\ \A sc \in {"user", "login"} :
          (cur # Idle /\ cur' = Idle /\ RejectedAt(last', sc)) =>
             /\ "ip" \in Earlier(last', sc)
             /\ sc = "login" /\ last'.userId # NoUser => "user" \in Earlier(last', sc)
             /\ \A x \in Earlier(last', sc) :
                   /\ buckets'[x] = buckets[x]
                   /\ ScopeKey(last', x) \in DOMAIN buckets'[x]
                   /\ buckets'[x][ScopeKey(last', x)].value >= 1
                   /\ buckets'[x][ScopeKey(last', x)].expiresAt > now

\* C33: a request that the user or the login scope rejects has consumed one point on the ip
\* scope (and one on the user scope, when the login scope rejects a request with a user id)
\* in its earlier steps, and the step that rejects it leaves those buckets as they were:
\* the points are not given back.
C33 == [][C33_Step]_vars

\* a request with a user id was rejected on the login scope, after it consumed on ip and user
C33_Witness ==
  /\ RejectedAt(last, "login")
  /\ last.consumed = <<"ip", "user", "login">>
  /\ cur = Idle
  /\ buckets.ip[IpKey(last)].value >= 1
  /\ buckets.user[ScopeKey(last, "user")].value >= 1

C36_Step ==
  LET rq == Handled'
  IN /\ (Arrives /\ (FlaggedAs("potential_ddos") \/ FlaggedAs("path_traversal"))
             /\ rq.threats = <<>>) =>
          /\ rq.ip \notin blockedIPs
          /\ rq.ip \in blockedIPs'
          /\ rq.status # 403
          /\ IF OnExemptList(rq.path)
             THEN rq.status = 200 /\ rq.consumed = <<>>
             ELSE Len(rq.consumed) >= 1 /\ rq.consumed[1] = "ip"
     /\ (Arrives /\ rq.status = 403 /\ rq.reason = "blocked") => rq.ip \in blockedIPs

\* C36: a request that detectAnomalies flags (as a flood or as a path traversal) and whose
\* data match no threat pattern is not answered 403: it is handed to checkLimits, although
\* its address is in the blocked set when the step ends; a request is rejected as blocked
\* only when its address was already blocked when it arrived.
C36 == [][C36_Step]_vars

\* the 51st request of a fingerprint was flagged as a flood, blocked its address, and was
\* let through by the chain
C36_Witness ==
  /\ cur = Idle
  /\ last.status = 200
  /\ last.ip \in blockedIPs
  /\ last.ip \o last.ua \in DOMAIN anomalies
  /\ Len(anomalies[last.ip \o last.ua]) = 51
  /\ Len(events) >= 2
  /\ events[Len(events)].type = "ip_blocked"
  /\ events[Len(events) - 1].detail = "potential_ddos"
  /\ getTime(events[Len(events)].timestamp) = now

\* the unblock timers that this step scheduled for the key k
Scheduled(k) ==
  IF k \in DOMAIN timers'
  THEN timers'[k] - (IF k \in DOMAIN timers THEN timers[k] ELSE 0)
  ELSE 0

\* C37: the step that handles one request records at most one ip_blocked event in the
\* journal and schedules at most one unblock timer, also when the request is flagged for
\* more than one reason.
C37 ==
  [][Arrives =>
       /\ Cardinality({i \in NewEvents : events'[i].type = "ip_blocked"}) <= 1
       /\ \A k \in DOMAIN timers' : Scheduled(k) <= 1]_vars

C32_Inv ==
  \A k \in DOMAIN timers :
     /\ k[1] \in blockedIPs
     /\ k[2] = LastBlock(k[1]) + BlockMs

C32_Step ==
  /\ \A ip \in blockedIPs \ blockedIPs' : now >= LastBlock(ip) + BlockMs
  /\ \A ip \in {IP1, IP2} :
       (Arrives /\ Handled'.ip = ip /\ BlockTimes(ip) # {} /\ now < LastBlock(ip) + BlockMs) =>
          /\ cur' = Idle
          /\ last'.status = 403
          /\ last'.reason = "blocked"

\* C32: every pending unblock timer belongs to an address that is blocked and is due one
\* block duration after the last block of that address; an address leaves the blocked set
\* no earlier than one block duration after its last block; and a request that arrives less
\* than one block duration after the last block of its address is rejected as blocked.
C32 == []C32_Inv /\ [][C32_Step]_vars

\* an address that one request blocked twice has turned a request away and was released one
\* block duration after the block, with no timer of it left
C32_Witness ==
  \E ip \in {IP1, IP2} :
     /\ Cardinality({i \in 1..Len(events) : events[i].type = "ip_blocked" /\ events[i].ip = ip}) = 2
     /\ Cardinality(BlockTimes(ip)) = 1
     /\ \E i \in 1..Len(events) : events[i].type = "blocked_ip_access" /\ events[i].ip = ip
     /\ ip \notin blockedIPs
     /\ now = LastBlock(ip) + BlockMs
     /\ \A k \in DOMAIN timers : k[1] # ip

----------------------------------------------------------------------------
(* Properties of the login statistics *)

\* the login attempts in the journal that were recorded with success = false (severity warning)
FailedLogins ==
  {i \in 1..Len(events) : events[i].type = "login_attempt" /\ events[i].severity = "warning"}

\* C38: while the journal has dropped no event, stats.failedLogins is the number of login
\* attempts recorded with success = false; and a step that records a login attempt with
\* success = true raises MULTIPLE_FAILED_LOGINS only when at least 5 failed attempts are
\* in the alert window.
C38 ==
  /\ [](stats.failedLogins = Cardinality(FailedLogins))
  /\ [][alerts'.MULTIPLE_FAILED_LOGINS > alerts.MULTIPLE_FAILED_LOGINS =>
          Cardinality({i \in 1..Len(events') :
                         /\ events'[i].type = "login_attempt"
                         /\ events'[i].severity = "warning"
                         /\ now - getTime(events'[i].timestamp) < AlertWindow}) >=
            alertThresholds.failedLogins]_vars

----------------------------------------------------------------------------
(* Properties of the configuration in use *)

\* C35: in every reachable state each of the three scopes has points, duration and
\* blockDuration greater than zero, and the configuration has its exemption list and its
\* environment.
C35 ==
  [](/\ {"exemptPaths", "environment"} \subseteq DOMAIN config
     /\ AllPositive(config))

----------------------------------------------------------------------------
(* Properties of the refresh tokens *)

\* a validateRefreshToken call was made in this step
Validates == refreshed' # refreshed /\ refreshed'.op = "validate"

C39_Step ==
  LET tok == refreshed'.token
      known == tok \in DOMAIN tokenStore
  IN /\ Validates =>
          /\ (known /\ refreshed.redeemed[tok] = 0 /\ now < tokenStore[tok].expires) =>
                /\ refreshed'.ok
                /\ refreshed'.userId = tokenStore[tok].userId
          /\ (~known \/ now > tokenStore[tok].expires) => ~refreshed'.ok
          /\ (known /\ refreshed.redeemed[tok] > 0) => ~refreshed'.ok
          /\ ~refreshed'.ok => tokenStore' = tokenStore
          /\ refreshed'.ok =>
                \A x \in DOMAIN tokenStore : x # tok => tokenStore'[x] = tokenStore[x]
     /\ \A x \in DOMAIN tokenStore :
          /\ x \in DOMAIN tokenStore'
          /\ tokenStore'[x].userId = tokenStore[x].userId
          /\ tokenStore'[x].expires = tokenStore[x].expires

\* C39: for every token generateRefreshToken returned, validateRefreshToken succeeds at most
\* once: the first call before the expiry returns the user id the token was issued for;
\* every later call, every call after the expiry and every call with a token that was never
\* generated fails; a failed call leaves the store as it was, and no call changes the user
\* or the expiry of a token or another token's state.
C39 ==
  /\ [](\A x \in DOMAIN refreshed.redeemed : refreshed.redeemed[x] <= 1)
  /\ [][C39_Step]_vars

\* a token that was validated once was presented again before its expiry and refused
C39_Witness ==
  /\ refreshed.op = "validate"
  /\ ~refreshed.ok
  /\ refreshed.token \in DOMAIN tokenStore
  /\ refreshed.redeemed[refreshed.token] = 1
  /\ now < tokenStore[refreshed.token].expires
  /\ \E x \in DOMAIN tokenStore : ~tokenStore[x].used

----------------------------------------------------------------------------
(* Properties of the report *)

\* the journal events with a warning or an error severity from the address ip
Offences(ip) ==
  {i \in 1..Len(events) : events[i].severity \in {"warning", "error"} /\ events[i].ip = ip}

\* the security_attack events of the attack type t
AttacksOfType(t) ==
  {i \in 1..Len(events) : events[i].type = "security_attack" /\ events[i].detail = t}

\* r ranks the keys of all: at most five of them, each once and with its count, the largest
\* counts first, and no key that is left out has a larger count than one that is listed
Ranks(r, all, CountOf(_)) ==
  LET listed == {r[i].key : i \in 1..Len(r)}
  IN /\ Len(r) = (IF Cardinality(all) < 5 THEN Cardinality(all) ELSE 5)
     /\ listed \subseteq all
     /\ Cardinality(listed) = Len(r)
     /\ \A i \in 1..Len(r) : r[i].count = CountOf(r[i].key)
     /\ \A i \in 1..Len(r) : \A n \in 1..Len(r) : i < n => r[i].count >= r[n].count
     /\ \A k \in all \ listed : \A i \in 1..Len(r) : CountOf(k) <= r[i].count

\* C31: the report that generateSecurityReport returns ranks in topAttackIPs the addresses
\* of the journal's warning and error events, and in topAttackTypes the attack types of its
\* security_attack events: at most five pairs, in non-increasing order of count, each count
\* the number of those events, and no address or type outside the list has a higher count
\* than one inside it.
C31 ==
  [][report' # report =>
       /\ Ranks(report'.topAttackIPs,
                {events[i].ip : i \in {n \in 1..Len(events) :
                                          events[n].severity \in {"warning", "error"}}},
                LAMBDA ip : Cardinality(Offences(ip)))
       /\ Ranks(report'.topAttackTypes,
                {events[i].detail : i \in {n \in 1..Len(events) :
                                              events[n].type = "security_attack"}},
                LAMBDA t : Cardinality(AttacksOfType(t)))]_vars

\* a report on a journal with offences from six addresses and attacks of six types: five of
\* each are listed, the first address with more events than the last, and the address and
\* the type that are left out have fewer events than listed ones
C31_Witness ==
  /\ report.made
  /\ Len(report.topAttackIPs) = 5
  /\ Len(report.topAttackTypes) = 5
  /\ report.topAttackIPs[1].count > report.topAttackIPs[5].count
  /\ \E i \in 1..Len(AttackTypes) :
        /\ AttacksOfType(AttackTypes[i]) # {}
        /\ \A n \in 1..5 : report.topAttackTypes[n].key # AttackTypes[i]
        /\ Cardinality(AttacksOfType(AttackTypes[i])) < report.topAttackTypes[1].count
  /\ \E i \in 1..Len(ReportIPs) :
        /\ Offences(ReportIPs[i]) # {}
        /\ \A n \in 1..5 : report.topAttackIPs[n].key # ReportIPs[i]
        /\ Cardinality(Offences(ReportIPs[i])) < report.topAttackIPs[5].count
  /\ \E i \in 1..Len(events) : events[i].severity = "info" /\ events[i].ip = ReportIPs[6]

====
